---- MODULE Spec2Model ----
(***************************************************************************)
(* Model of the restaurant phone agent: the abuse guard, conversation      *)
(* memory, language routing, reservation extraction and validation and     *)
(* turn handling of src/app_simple.py, the conversation memory of          *)
(* src/app/services/gpt.py, the handlers of src/app.py and the routes of    *)
(* src/app/routes/voice.py.                                               *)
(*                                                                         *)
(* Texts are sequences of one-character strings, so that lower-casing and  *)
(* substring search are computed as the code computes them.                *)
(***************************************************************************)
EXTENDS Integers, Sequences, FiniteSets, TLC

(***************************************************************************)
(* Program constants                                                       *)
(***************************************************************************)
MAX_CALLS_PER_HOUR == 5
MAX_MODERATION_FLAGS == 3
RESERVATION_COOLDOWN == 300
RATE_WINDOW == 3600
HISTORY_LIMIT == 10
APP_CONTEXT == 4
SPAM_LOOKBACK == 5
SPAM_REPEATS == 3
CONFIDENCE_THRESHOLD == 50

(***************************************************************************)
(* Bounds of the model                                                     *)
(***************************************************************************)
MaxFlags == 4
MaxTurns == 1
MaxStarts == 1
MaxReservations == 2
MaxStored == 11

(***************************************************************************)
(* Text helpers                                                            *)
(***************************************************************************)
Lower(ch) ==
    CASE ch = "A" -> "a" [] ch = "B" -> "b" [] ch = "C" -> "c" [] ch = "D" -> "d"
      [] ch = "E" -> "e" [] ch = "F" -> "f" [] ch = "G" -> "g" [] ch = "H" -> "h"
      [] ch = "I" -> "i" [] ch = "J" -> "j" [] ch = "K" -> "k" [] ch = "L" -> "l"
      [] ch = "M" -> "m" [] ch = "N" -> "n" [] ch = "O" -> "o" [] ch = "P" -> "p"
      [] ch = "Q" -> "q" [] ch = "R" -> "r" [] ch = "S" -> "s" [] ch = "T" -> "t"
      [] ch = "U" -> "u" [] ch = "V" -> "v" [] ch = "W" -> "w" [] ch = "X" -> "x"
      [] ch = "Y" -> "y" [] ch = "Z" -> "z" [] OTHER -> ch

\* str.lower()
LowerText(s) == [i \in 1..Len(s) |-> Lower(s[i])]

\* Python's "k in s" on strings: k occurs in s as a contiguous substring
Contains(s, k) ==
    \E i \in 0..(Len(s) - Len(k)) : \A j \in 1..Len(k) : s[i + j] = k[j]

\* Python's s[-n:]
LastN(s, n) == IF Len(s) <= n THEN s ELSE SubSeq(s, Len(s) - n + 1, Len(s))

\* Python's s[:n]
FirstN(s, n) == IF Len(s) <= n THEN s ELSE SubSeq(s, 1, n)

Range(s) == {s[i] : i \in 1..Len(s)}

IsDigit(ch) == ch \in {"0", "1", "2", "3", "4", "5", "6", "7", "8", "9"}

\* k occurs in s at position i
OccursAt(s, k, i) == i >= 1 /\ i + Len(k) - 1 <= Len(s) /\ \A j \in 1..Len(k) : s[i + j - 1] = k[j]

\* s.split(k)[-1] for a k that occurs in s and cannot overlap itself
AfterLast(s, k) ==
    LET at == {i \in 1..Len(s) : OccursAt(s, k, i)}
        last == CHOOSE i \in at : \A j \in at : j <= i
    IN  SubSeq(s, last + Len(k), Len(s))

\* int() of a text of digits
RECURSIVE IntOf(_)
IntOf(s) ==
    LET DigitValue(ch) ==
            CASE ch = "0" -> 0 [] ch = "1" -> 1 [] ch = "2" -> 2 [] ch = "3" -> 3
              [] ch = "4" -> 4 [] ch = "5" -> 5 [] ch = "6" -> 6 [] ch = "7" -> 7
              [] ch = "8" -> 8 [] OTHER -> 9
    IN  IF s = << >> THEN 0
        ELSE 10 * IntOf(SubSeq(s, 1, Len(s) - 1)) + DigitValue(s[Len(s)])

(***************************************************************************)
(* Content moderation keywords, in the order of the dict                   *)
(***************************************************************************)
INAPPROPRIATE_KEYWORDS == <<
   [category |-> "profanity", keywords |-> <<
       <<"f","u","c","k">>,
       <<"s","h","i","t">>,
       <<"d","a","m","n">>,
       <<"b","i","t","c","h">>,
       <<"a","s","s","h","o","l","e">>,
       <<"b","a","s","t","a","r","d">> >>],
   [category |-> "spam_indicators", keywords |-> <<
       <<"t","e","s","t">>,
       <<"t","e","s","t","i","n","g">>,
       <<"s","p","a","m">>,
       <<"f","a","k","e">>,
       <<"b","o","t">>,
       <<"a","u","t","o","m","a","t","e","d">> >>],
   [category |-> "malicious", keywords |-> <<
       <<"h","a","c","k">>,
       <<"a","t","t","a","c","k">>,
       <<"v","i","r","u","s">>,
       <<"s","c","a","m">>,
       <<"f","r","a","u","d">> >>],
   [category |-> "inappropriate_names", keywords |-> <<
       <<"h","i","t","l","e","r">>,
       <<"s","a","t","a","n">>,
       <<"d","e","v","i","l">>,
       <<"n","a","z","i">> >>] >>

(***************************************************************************)
(* Language patterns, in the order of the dict.  The texts of the model    *)
(* are ASCII, so the patterns of the source that hold a non-ASCII          *)
(* character (and the languages that have only such patterns) can never    *)
(* match and are left out.                                                 *)
(***************************************************************************)
LANGUAGE_PATTERNS == <<
   [lang_code |-> <<"e","s">>, patterns |-> <<
       <<"h","o","l","a">>,
       <<"b","u","e","n","o","s">>,
       <<"g","r","a","c","i","a","s">>,
       <<"p","o","r"," ","f","a","v","o","r">>,
       <<"d","i","s","c","u","l","p","e">>,
       <<"r","e","s","e","r","v","a">>,
       <<"m","e","s","a">> >>],
   [lang_code |-> <<"f","r">>, patterns |-> <<
       <<"b","o","n","j","o","u","r">>,
       <<"m","e","r","c","i">>,
       <<"e","x","c","u","s","e","z">>,
       <<"t","a","b","l","e">>,
       <<"r","e","s","t","a","u","r","a","n","t">> >>],
   [lang_code |-> <<"d","e">>, patterns |-> <<
       <<"h","a","l","l","o">>,
       <<"d","a","n","k","e">>,
       <<"e","n","t","s","c","h","u","l","d","i","g","u","n","g">>,
       <<"r","e","s","e","r","v","i","e","r","u","n","g">>,
       <<"t","i","s","c","h">>,
       <<"r","e","s","t","a","u","r","a","n","t">> >>],
   [lang_code |-> <<"i","t">>, patterns |-> <<
       <<"c","i","a","o">>,
       <<"g","r","a","z","i","e">>,
       <<"s","c","u","s","i">>,
       <<"p","r","e","n","o","t","a","z","i","o","n","e">>,
       <<"t","a","v","o","l","o">>,
       <<"r","i","s","t","o","r","a","n","t","e">> >>],
   [lang_code |-> <<"p","t">>, patterns |-> <<
       <<"o","b","r","i","g","a","d","o">>,
       <<"d","e","s","c","u","l","p","e">>,
       <<"r","e","s","e","r","v","a">>,
       <<"m","e","s","a">>,
       <<"r","e","s","t","a","u","r","a","n","t","e">> >>] >>

SUPPORTED_LANGUAGES ==
    { <<"e","n">>, <<"e","s">>, <<"f","r">>, <<"d","e">>, <<"i","t">>, <<"p","t">>,
      <<"r","u">>, <<"j","a">>, <<"k","o">>, <<"z","h">>, <<"h","i">>, <<"a","r">> }

L_en == <<"e","n">>
L_es == <<"e","s">>
L_fr == <<"f","r">>
L_de == <<"d","e">>

(***************************************************************************)
(* Inputs of the model                                                     *)
(***************************************************************************)
\* "unknown" is the default of both form fields CallSid and From
CallSids == {"CA1", "unknown"}
Phones == {"+15550100", "unknown"}

T_Empty == << >>
T_Hola == <<"H","o","l","a">>
T_Damn == <<"D","a","m","n"," ","i","t">>
T_TestHack == <<"a"," ","t","e","s","t"," ","h","a","c","k">>
T_Bonjour == <<"B","o","n","j","o","u","r">>
T_Hello == <<"H","e","l","l","o">>
T_Ok == <<"o","k">>
T_Ana == <<"A","n","a">>
T_Hitler == <<"H","i","t","l","e","r">>

T_Apology == <<"s","o","r","r","y">>
\* str(e) of two failures of the completion call
T_Timeout == <<"t","i","m","e","o","u","t">>
T_Refused == <<"r","e","f","u","s","e","d">>

(***************************************************************************)
(* Python values                                                           *)
(***************************************************************************)
None == [t |-> "none", v |-> << >>]
Str(s) == [t |-> "str", v |-> s]
IsNone(x) == DOMAIN x = {"t", "v"} /\ x.t = "none"
List(l) == [t |-> "list", v |-> l]
IsList(x) == DOMAIN x = {"t", "v"} /\ x.t = "list"
EmptyDict == << >>

\* dict.get(key, default)
Get(d, key, default) == IF key \in DOMAIN d THEN d[key] ELSE default

\* an assignment that overwrites the value of every key of the dict
Put_every_key(d, key, value) ==
    [k \in (DOMAIN d) \cup {key} |-> value]

\* d[key] = value on a dict
Put(d, key, value) ==
    [k \in (DOMAIN d) \cup {key} |-> IF k = key THEN value ELSE d[k]]

\* float(confidence) on the strings of the model, in hundredths
IsNumeric(conf) == conf \in {"0", "0.3", "0.5", "0.9"}
\* float(call_duration) of a status callback succeeds
IsDuration(call_duration) == call_duration \in {"0", "42"}
FloatOf(conf) ==
    CASE conf = "0" -> 0 [] conf = "0.3" -> 30 [] conf = "0.5" -> 50
      [] conf = "0.9" -> 90 [] OTHER -> -1

(***************************************************************************)
(* State                                                                   *)
(***************************************************************************)
VARIABLES
    OPENAI_API_KEY,        \* whether the credential is configured
    DATABASE_AVAILABLE,    \* whether the storage layer is configured
    now,                   \* time.time()
    call_rate_limit,       \* phone -> list of call times
    blocked_numbers,       \* set of phones
    moderation_flags,      \* phone -> count
    call_history,          \* dict: call sid -> list of messages
    call_languages,        \* dict: call sid -> language code
    reservation_state,     \* dict: phone -> last_reservation_time
    last_analysis,         \* dict: call sid -> analysis
    reservation_log,       \* the reservations handed to log_reservation, in order
    conversation_history,  \* GPTService.conversation_history
    app_call_history,      \* call_history of app.py: call sid -> list of messages
    human_fallback_number, \* whether settings.human_fallback_number is set
    call_records,          \* the calls table: call sid -> [status, escalated]
    in_flight,             \* call id -> the process_message turn that has stored
                           \* the user message and not yet returned
    resp                   \* the last request and the response it got

vars == << OPENAI_API_KEY, DATABASE_AVAILABLE, now, call_rate_limit,
           blocked_numbers, moderation_flags, call_history, call_languages,
           reservation_state, last_analysis, reservation_log, conversation_history,
           app_call_history, human_fallback_number, call_records, in_flight, resp >>

config == << OPENAI_API_KEY, DATABASE_AVAILABLE, human_fallback_number >>
voice_state == << call_records, in_flight >>
simple_state == << call_rate_limit, blocked_numbers, moderation_flags, call_history,
                   call_languages, reservation_state, last_analysis, reservation_log >>

Msg(role, content) == [role |-> role, content |-> content]

NoResp ==
    [ handler |-> "none", status |-> 200, directive |-> "NONE", say |-> "none",
      speech |-> << >>, mod |-> "none", valid |-> "none", trace |-> << >>,
      sent |-> << >>, prompt_lang |-> << >>, draft |-> [ran |-> FALSE] ]

(***************************************************************************)
(* Abuse guard                                                             *)
(***************************************************************************)
\* is_rate_limited without the check of the blocked set
is_rate_limited_no_block_check(phone_number, blocked, windows, current_time) ==
    LET cleaned == SelectSeq(windows[phone_number],
                             LAMBDA call_time : current_time - call_time < RATE_WINDOW)
    IN  IF Len(cleaned) >= MAX_CALLS_PER_HOUR
        THEN [limited |-> TRUE, window |-> cleaned]
        ELSE [limited |-> FALSE, window |-> Append(cleaned, current_time)]

\* is_rate_limited that cleans the window of a blocked caller before it
\* rejects the call
is_rate_limited_trims_blocked(phone_number, blocked, windows, current_time) ==
    LET cleaned == SelectSeq(windows[phone_number],
                             LAMBDA call_time : current_time - call_time < RATE_WINDOW)
    IN  IF phone_number \in blocked \/ Len(cleaned) >= MAX_CALLS_PER_HOUR
        THEN [limited |-> TRUE, window |-> cleaned]
        ELSE [limited |-> FALSE, window |-> Append(cleaned, current_time)]

\* is_rate_limited that records the rejected call-start in the window
is_rate_limited_appends_rejected(phone_number, blocked, windows, current_time) ==
    IF phone_number \in blocked
    THEN [limited |-> TRUE, window |-> windows[phone_number]]
    ELSE LET cleaned == SelectSeq(windows[phone_number],
                                  LAMBDA call_time : current_time - call_time < RATE_WINDOW)
         IN  [limited |-> Len(cleaned) >= MAX_CALLS_PER_HOUR,
              window |-> Append(cleaned, current_time)]

\* is_rate_limited admitting one call too many ("> MAX" for ">= MAX")
is_rate_limited_off_by_one(phone_number, blocked, windows, current_time) ==
    IF phone_number \in blocked
    THEN [limited |-> TRUE, window |-> windows[phone_number]]
    ELSE LET cleaned == SelectSeq(windows[phone_number],
                                  LAMBDA call_time : current_time - call_time < RATE_WINDOW)
         IN  IF Len(cleaned) > MAX_CALLS_PER_HOUR
             THEN [limited |-> TRUE, window |-> cleaned]
             ELSE [limited |-> FALSE, window |-> Append(cleaned, current_time)]

\* is_rate_limited: the result and the caller's window after the call
is_rate_limited(phone_number, blocked, windows, current_time) ==
    IF phone_number \in blocked
    THEN [limited |-> TRUE, window |-> windows[phone_number]]
    ELSE LET cleaned == SelectSeq(windows[phone_number],
                                  LAMBDA call_time : current_time - call_time < RATE_WINDOW)
         IN  IF Len(cleaned) >= MAX_CALLS_PER_HOUR
             THEN [limited |-> TRUE, window |-> cleaned]
             ELSE [limited |-> FALSE, window |-> Append(cleaned, current_time)]

\* the categories one of whose keywords occurs in the lower-cased text
MatchingCategories(text_lower) ==
    { i \in 1..Len(INAPPROPRIATE_KEYWORDS) :
        \E j \in 1..Len(INAPPROPRIATE_KEYWORDS[i].keywords) :
            Contains(text_lower, INAPPROPRIATE_KEYWORDS[i].keywords[j]) }

MinOf(S) == CHOOSE x \in S : \A y \in S : x <= y

\* the contents of the user messages among the last 5 stored under the key
RecentUserMessages(history, key) ==
    LET tail == LastN(history[key], SPAM_LOOKBACK)
        users == SelectSeq(tail, LAMBDA msg : msg.role = "user")
    IN  [i \in 1..Len(users) |-> users[i].content]

\* moderate_content blocking one flag late ("> MAX" for ">= MAX")
moderate_content_late_block(text, phone_number, flags, history) ==
    LET cats == MatchingCategories(LowerText(text))
        n == flags[phone_number] + 1
    IN  IF cats # {}
        THEN IF n > MAX_MODERATION_FLAGS
             THEN [is_safe |-> FALSE, reason |-> "account_blocked", count |-> n, block |-> TRUE]
             ELSE [is_safe |-> FALSE, reason |-> INAPPROPRIATE_KEYWORDS[MinOf(cats)].category,
                   count |-> n, block |-> FALSE]
        ELSE [is_safe |-> TRUE, reason |-> "", count |-> flags[phone_number], block |-> FALSE]

\* moderate_content: (is_safe, reason), the caller's counter and whether the
\* caller is added to the blocked set
moderate_content(text, phone_number, flags, history) ==
    LET text_lower == LowerText(text)
        cats == MatchingCategories(text_lower)
    IN  IF cats # {}
        THEN LET n == flags[phone_number] + 1
             IN  IF n >= MAX_MODERATION_FLAGS
                 THEN [is_safe |-> FALSE, reason |-> "account_blocked",
                       count |-> n, block |-> TRUE]
                 ELSE [is_safe |-> FALSE,
                       reason |-> INAPPROPRIATE_KEYWORDS[MinOf(cats)].category,
                       count |-> n, block |-> FALSE]
        ELSE IF /\ phone_number \in DOMAIN history
                /\ LET recent_messages == RecentUserMessages(history, phone_number)
                   IN  /\ Len(recent_messages) >= SPAM_REPEATS
                       /\ Cardinality(Range(recent_messages)) <= 1
             THEN [is_safe |-> FALSE, reason |-> "spam_detected",
                   count |-> flags[phone_number] + 1, block |-> FALSE]
             ELSE [is_safe |-> TRUE, reason |-> "",
                   count |-> flags[phone_number], block |-> FALSE]

\* validate_reservation_data without the cooldown test
validate_reservation_data_no_cooldown(data, phone_number, rstate, current_time) ==
    IF IsNone(data) THEN [status |-> "raise", is_valid |-> FALSE, reason |-> ""]
    ELSE IF "name" \in DOMAIN data /\ data["name"].t # "str"
    THEN [status |-> "raise", is_valid |-> FALSE, reason |-> ""]
    ELSE IF /\ "name" \in DOMAIN data
            /\ \E j \in 1..Len(INAPPROPRIATE_KEYWORDS[4].keywords) :
                  Contains(LowerText(data["name"].v), INAPPROPRIATE_KEYWORDS[4].keywords[j])
    THEN [status |-> "ok", is_valid |-> FALSE, reason |-> "inappropriate_name"]
    ELSE [status |-> "ok", is_valid |-> TRUE, reason |-> ""]

\* validate_reservation_data with the cooldown test "<=" for "<"
validate_reservation_data_off_by_one(data, phone_number, rstate, current_time) ==
    IF /\ "name" \in DOMAIN data
       /\ \E j \in 1..Len(INAPPROPRIATE_KEYWORDS[4].keywords) :
             Contains(LowerText(data["name"].v), INAPPROPRIATE_KEYWORDS[4].keywords[j])
    THEN [status |-> "ok", is_valid |-> FALSE, reason |-> "inappropriate_name"]
    ELSE IF /\ phone_number \in DOMAIN rstate
            /\ current_time - rstate[phone_number] <= RESERVATION_COOLDOWN
    THEN [status |-> "ok", is_valid |-> FALSE, reason |-> "too_frequent"]
    ELSE [status |-> "ok", is_valid |-> TRUE, reason |-> ""]

\* validate_reservation_data: "raise" stands for the exception that
\* data['name'].lower() or "'name' in data" raises on a None
validate_reservation_data(data, phone_number, rstate, current_time) ==
    IF IsNone(data) THEN [status |-> "raise", is_valid |-> FALSE, reason |-> ""]
    ELSE IF "name" \in DOMAIN data /\ data["name"].t # "str"
    THEN [status |-> "raise", is_valid |-> FALSE, reason |-> ""]
    ELSE IF /\ "name" \in DOMAIN data
            /\ \E j \in 1..Len(INAPPROPRIATE_KEYWORDS[4].keywords) :
                  Contains(LowerText(data["name"].v), INAPPROPRIATE_KEYWORDS[4].keywords[j])
    THEN [status |-> "ok", is_valid |-> FALSE, reason |-> "inappropriate_name"]
    ELSE IF /\ phone_number \in DOMAIN rstate
            /\ current_time - rstate[phone_number] < RESERVATION_COOLDOWN
    THEN [status |-> "ok", is_valid |-> FALSE, reason |-> "too_frequent"]
    ELSE [status |-> "ok", is_valid |-> TRUE, reason |-> ""]

(***************************************************************************)
(* Language router                                                         *)
(***************************************************************************)
\* the languages one of whose patterns occurs in the lower-cased text
MatchingLanguages(text_lower) ==
    { i \in 1..Len(LANGUAGE_PATTERNS) :
        \E j \in 1..Len(LANGUAGE_PATTERNS[i].patterns) :
            Contains(text_lower, LANGUAGE_PATTERNS[i].patterns[j]) }

\* detect_language: lang_out is the answer of the remote detector,
\* [kind |-> "error"] or [kind |-> "text", text |-> ...]
detect_language(text, lang_out) ==
    LET langs == MatchingLanguages(LowerText(text))
    IN  IF langs # {}
        THEN [lang |-> LANGUAGE_PATTERNS[MinOf(langs)].lang_code, remote |-> FALSE]
        ELSE IF lang_out.kind = "text" /\ LowerText(lang_out.text) \in SUPPORTED_LANGUAGES
             THEN [lang |-> LowerText(lang_out.text), remote |-> TRUE]
             ELSE [lang |-> L_en, remote |-> TRUE]

\* the language of the persona prompt built for a language code
create_multilingual_system_prompt(language_code) ==
    IF language_code \in SUPPORTED_LANGUAGES THEN language_code ELSE L_en

\* the language store overwritten at every turn
StoreLanguage_every_turn(languages, call_sid, detected_language) ==
    Put(languages, call_sid, detected_language)

\* "if call_sid not in call_languages: call_languages[call_sid] = detected_language"
StoreLanguage(languages, call_sid, detected_language) ==
    IF call_sid \in DOMAIN languages THEN languages
    ELSE Put(languages, call_sid, detected_language)

(***************************************************************************)
(* Conversation memory and reply generation                                *)
(***************************************************************************)
\* the trim keeping the oldest messages ("[:10]" for "[-10:]")
TrimHistory_keeps_oldest(history) ==
    IF Len(history) > HISTORY_LIMIT THEN FirstN(history, HISTORY_LIMIT) ELSE history

\* the list object "history" after the append of the user message and the trim
TrimHistory(history) ==
    IF Len(history) > HISTORY_LIMIT THEN LastN(history, HISTORY_LIMIT) ELSE history

\* generate_ai_response from the lookup of the history on, given the result
\* det of detect_language.  chat_out is the answer of the completion service,
\* [kind |-> "error"] or [kind |-> "text", text |-> ...].
\* call_history.get(call_sid, []) hands out the stored list itself, so the
\* append of the user message is an append to the stored list.
Generate(det, user_message, call_sid, history, languages, chat_out) ==
    LET languages1 == StoreLanguage(languages, call_sid, det.lang)
        prompt == create_multilingual_system_prompt(det.lang)
        stored == call_sid \in DOMAIN history
        appended == Append(Get(history, call_sid, << >>), Msg("user", user_message))
        history1 == IF stored THEN Put(history, call_sid, appended) ELSE history
        trimmed == TrimHistory(appended)
        trace1 == IF det.remote THEN << "detect_completion" >> ELSE << >>
    IN  IF chat_out.kind = "text"
        THEN [ reply |-> chat_out.text,
               history |-> Put(history1, call_sid,
                               Append(trimmed, Msg("assistant", chat_out.text))),
               languages |-> languages1,
               trace |-> Append(trace1, "chat_completion"),
               sent |-> trimmed, prompt_lang |-> prompt, failed |-> FALSE ]
        ELSE [ reply |-> T_Apology, history |-> history1, languages |-> languages1,
               trace |-> Append(trace1, "chat_completion"),
               sent |-> trimmed, prompt_lang |-> prompt, failed |-> TRUE ]

\* generate_ai_response: the static apology when the credential is missing
generate_ai_response(user_message, call_sid, key, history, languages, lang_out, chat_out) ==
    IF ~key
    THEN [ reply |-> T_Apology, history |-> history, languages |-> languages,
           trace |-> << >>, sent |-> << >>, prompt_lang |-> << >>, failed |-> TRUE ]
    ELSE Generate(detect_language(user_message, lang_out), user_message, call_sid,
                  history, languages, chat_out)

(***************************************************************************)
(* Reservation extractor                                                   *)
(***************************************************************************)
DefaultAnalysis ==
    [reservation_complete |-> FALSE, sms_consent |-> "unknown", details |-> EmptyDict]

\* analyze_interaction: ana_out is the answer of the completion service,
\* [kind |-> "error"], [kind |-> "garbage"] (text that json.loads rejects) or
\* [kind |-> "json", parsed |-> dict], or [kind |-> "json_list", parsed |->
\* list of strings] (text that json.loads parses to a list).  The shape guard
\* is Python's "in": a key of a dict, an element of a list.
analyze_interaction(key, ana_out) ==
    IF ~key THEN [analysis |-> DefaultAnalysis, trace |-> << >>]
    ELSE IF ana_out.kind = "json_list"
    THEN IF {"reservation_complete", "sms_consent"} \subseteq Range(ana_out.parsed)
         THEN [analysis |-> List(ana_out.parsed), trace |-> << "extract_completion" >>]
         ELSE [analysis |-> DefaultAnalysis, trace |-> << "extract_completion" >>]
    ELSE IF ana_out.kind # "json"
    THEN [analysis |-> DefaultAnalysis, trace |-> << "extract_completion" >>]
    ELSE IF \/ "reservation_complete" \notin DOMAIN ana_out.parsed
            \/ "sms_consent" \notin DOMAIN ana_out.parsed
    THEN [analysis |-> DefaultAnalysis, trace |-> << "extract_completion" >>]
    ELSE [analysis |-> ana_out.parsed, trace |-> << "extract_completion" >>]

\* a storage call reaches the storage layer only when the layer is configured
Storage(db, name) == IF db THEN << name >> ELSE << >>

(***************************************************************************)
(* Handlers of app_simple.py                                               *)
(***************************************************************************)
\* POST /voice/ : handle_call
HandleCall(call_sid, from_number) ==
    LET r == is_rate_limited(from_number, blocked_numbers, call_rate_limit, now)
        trace == Storage(DATABASE_AVAILABLE, "log_call_start") \o << "is_rate_limited" >>
    IN  /\ call_rate_limit' = [call_rate_limit EXCEPT ![from_number] = r.window]
        /\ call_history' = IF ~r.limited /\ call_sid \notin DOMAIN call_history
                           THEN Put(call_history, call_sid, << >>)
                           ELSE call_history
        /\ resp' = [NoResp EXCEPT !.handler = "handle_call", !.trace = trace,
                       !.directive = IF r.limited THEN "TERMINATE" ELSE "CONTINUE",
                       !.say = IF r.limited THEN "rate_limited" ELSE "greeting"]
        /\ UNCHANGED << config, voice_state, app_call_history, now, blocked_numbers, moderation_flags, call_languages,
                        reservation_state, last_analysis, reservation_log,
                        conversation_history >>

\* the cooldown mark written at every validation attempt of a complete draft
MarkReservation_every_attempt(rstate, from_number, complete, accepted, current_time) ==
    IF complete THEN Put(rstate, from_number, current_time) ELSE rstate

\* the cooldown mark of process_speech, written in the branch of a valid draft
MarkReservation(rstate, from_number, complete, accepted, current_time) ==
    IF accepted THEN Put(rstate, from_number, current_time) ELSE rstate

\* the directive with a hang-up after a refused reservation
TurnDirective_hangup_on_invalid(complete, accepted, raised) ==
    IF raised THEN "NONE" ELSE IF complete THEN "TERMINATE" ELSE "CONTINUE"

\* the directive with speech capture re-armed after an accepted reservation
TurnDirective_never_ends(complete, accepted, raised) ==
    IF raised THEN "NONE" ELSE "CONTINUE"

\* the directive of the response built at the end of process_speech: <Hangup/>
\* without <Gather> after an accepted reservation, <Gather> otherwise; no
\* response when an exception left the handler
TurnDirective(complete, accepted, raised) ==
    IF raised THEN "NONE" ELSE IF accepted THEN "TERMINATE" ELSE "CONTINUE"

\* the end of process_speech: the response and the state after the reply g,
\* the analysis and the validation result v of its details.  analysis.get
\* raises on an analysis that is a list.
TurnOutcome(call_sid, from_number, g, analysis, atrace, v) ==
    LET trace == g.trace \o Storage(DATABASE_AVAILABLE, "log_transcript") \o atrace
        complete == ~IsList(analysis) /\ Get(analysis, "reservation_complete", FALSE)
        reservation_data == Get(analysis, "details", EmptyDict)
        accepted == complete /\ v.status = "ok" /\ v.is_valid
        raised == IsList(analysis) \/ (complete /\ v.status = "raise")
    IN  [ history |-> g.history,
          languages |-> g.languages,
          analysis |-> Put(last_analysis, call_sid, analysis),
          rstate |-> MarkReservation(reservation_state, from_number, complete, accepted, now),
          log |-> IF accepted
                  THEN Append(reservation_log,
                              [call_sid |-> call_sid, phone |-> from_number,
                               time |-> now, data |-> reservation_data])
                  ELSE reservation_log,
          status |-> IF raised THEN 500 ELSE 200,
          directive |-> TurnDirective(complete, accepted, raised),
          say |-> IF raised THEN "none"
                  ELSE IF ~complete \/ accepted THEN "reply"
                  ELSE v.reason,
          speech |-> IF raised THEN << >>
                     ELSE IF ~complete \/ accepted THEN g.reply ELSE << >>,
          valid |-> IF ~complete \/ v.status = "raise" THEN "none"
                    ELSE IF v.is_valid THEN "valid" ELSE v.reason,
          trace |-> IF accepted
                    THEN trace \o Storage(DATABASE_AVAILABLE, "log_reservation")
                    ELSE trace,
          sent |-> g.sent,
          prompt_lang |-> g.prompt_lang ]

\* the validation of the details of the analysis a
TurnValidated(call_sid, from_number, g, a) ==
    TurnOutcome(call_sid, from_number, g, a.analysis, a.trace,
                validate_reservation_data(Get(a.analysis, "details", EmptyDict),
                                          from_number, reservation_state, now))

\* the part of process_speech after the checks: reply, extraction, validation
ProcessTurn(call_sid, from_number, speech_result, lang_out, chat_out, ana_out) ==
    TurnValidated(call_sid, from_number,
                  generate_ai_response(speech_result, call_sid, OPENAI_API_KEY,
                                       call_history, call_languages, lang_out, chat_out),
                  analyze_interaction(OPENAI_API_KEY, ana_out))

\* process_speech, given the moderation result m and the outcome t of the turn
SpeechStep(speech_result, confidence, from_number, m, t) ==
    LET req == [NoResp EXCEPT !.handler = "process_speech"]
        trace0 == Storage(DATABASE_AVAILABLE, "log_transcript") \o << "moderate_content" >>
    IN  \* the counter of the model stops at MaxFlags
        /\ m.count <= MaxFlags
        /\ IF confidence # "" /\ ~IsNumeric(confidence)
           THEN \* float(confidence) raises before anything is done
                /\ resp' = [req EXCEPT !.status = 500]
                /\ UNCHANGED simple_state
           ELSE IF ~m.is_safe
           THEN /\ moderation_flags' = [moderation_flags EXCEPT ![from_number] = m.count]
                /\ blocked_numbers' = IF m.block THEN blocked_numbers \cup {from_number}
                                      ELSE blocked_numbers
                /\ resp' = [req EXCEPT !.mod = m.reason, !.trace = trace0,
                               !.directive = IF m.reason = "account_blocked"
                                             THEN "TERMINATE" ELSE "CONTINUE",
                               !.say = IF m.reason = "account_blocked"
                                       THEN "account_blocked" ELSE "cant_process"]
                /\ UNCHANGED << call_rate_limit, call_history, call_languages,
                                reservation_state, last_analysis, reservation_log >>
           ELSE IF speech_result = << >>
           THEN /\ resp' = [req EXCEPT !.mod = "safe", !.trace = trace0,
                               !.directive = "CONTINUE", !.say = "reprompt"]
                /\ UNCHANGED simple_state
           ELSE IF ~IsNumeric(confidence)
           THEN \* float("") raises
                /\ resp' = [req EXCEPT !.mod = "safe", !.trace = trace0, !.status = 500]
                /\ UNCHANGED simple_state
           ELSE IF FloatOf(confidence) < CONFIDENCE_THRESHOLD
           THEN /\ resp' = [req EXCEPT !.mod = "safe", !.trace = trace0,
                               !.directive = "CONTINUE", !.say = "reprompt"]
                /\ UNCHANGED simple_state
           ELSE /\ call_history' = t.history
                /\ call_languages' = t.languages
                /\ last_analysis' = t.analysis
                /\ reservation_state' = t.rstate
                /\ reservation_log' = t.log
                /\ resp' = [req EXCEPT !.mod = "safe", !.status = t.status,
                               !.directive = t.directive, !.say = t.say,
                               !.speech = t.speech, !.valid = t.valid,
                               !.trace = trace0 \o t.trace, !.sent = t.sent,
                               !.prompt_lang = t.prompt_lang]
                /\ UNCHANGED << call_rate_limit, blocked_numbers, moderation_flags >>
        /\ UNCHANGED << config, voice_state, app_call_history, now, conversation_history >>

\* process_speech that goes on to the reply whatever moderation returned
ProcessSpeech_ignores_moderation(call_sid, from_number, speech_result, confidence, lang_out, chat_out, ana_out) ==
    SpeechStep(speech_result, confidence, from_number,
               [is_safe |-> TRUE, reason |-> "", count |-> moderation_flags[from_number],
                block |-> FALSE],
               ProcessTurn(call_sid, from_number, speech_result, lang_out, chat_out, ana_out))

\* POST /voice/process : process_speech
ProcessSpeech(call_sid, from_number, speech_result, confidence, lang_out, chat_out, ana_out) ==
    SpeechStep(speech_result, confidence, from_number,
               moderate_content(speech_result, from_number, moderation_flags, call_history),
               ProcessTurn(call_sid, from_number, speech_result, lang_out, chat_out, ana_out))

\* unblock_number forgetting to reset the counter
UnblockNumber_keeps_flags(phone_number) ==
    /\ blocked_numbers' = blocked_numbers \ {phone_number}
    /\ resp' = [NoResp EXCEPT !.handler = "unblock_number",
                   !.say = IF phone_number \in blocked_numbers THEN "unblocked"
                           ELSE IF phone_number = "" THEN "phone_number required"
                           ELSE "was not blocked"]
    /\ UNCHANGED << config, voice_state, app_call_history, now, call_rate_limit, moderation_flags, call_history,
                    call_languages, reservation_state, last_analysis, reservation_log,
                    conversation_history >>

\* unblock_number resetting the counter of a caller that was not blocked
UnblockNumber_always_resets(phone_number) ==
    /\ blocked_numbers' = blocked_numbers \ {phone_number}
    /\ moderation_flags' = [p \in Phones |-> IF p = phone_number THEN 0
                                              ELSE moderation_flags[p]]
    /\ resp' = [NoResp EXCEPT !.handler = "unblock_number",
                   !.say = IF phone_number \in blocked_numbers THEN "unblocked"
                           ELSE IF phone_number = "" THEN "phone_number required"
                           ELSE "was not blocked"]
    /\ UNCHANGED << config, voice_state, app_call_history, now, call_rate_limit, call_history, call_languages,
                    reservation_state, last_analysis, reservation_log,
                    conversation_history >>

\* POST /security/unblock : unblock_number; "" stands for a missing phone_number
UnblockNumber(phone_number) ==
    /\ IF phone_number # "" /\ phone_number \in blocked_numbers
       THEN /\ blocked_numbers' = blocked_numbers \ {phone_number}
            /\ moderation_flags' = [moderation_flags EXCEPT ![phone_number] = 0]
            /\ resp' = [NoResp EXCEPT !.handler = "unblock_number", !.say = "unblocked"]
       ELSE /\ UNCHANGED << blocked_numbers, moderation_flags >>
            /\ resp' = [NoResp EXCEPT !.handler = "unblock_number",
                           !.say = IF phone_number = "" THEN "phone_number required"
                                   ELSE "was not blocked"]
    /\ UNCHANGED << config, voice_state, app_call_history, now, call_rate_limit, call_history, call_languages,
                    reservation_state, last_analysis, reservation_log,
                    conversation_history >>

(***************************************************************************)
(* GPTService of app/services/gpt.py                                       *)
(***************************************************************************)
\* del d[key]
Remove(d, key) ==
    IF (DOMAIN d) \ {key} = {} THEN EmptyDict
    ELSE [k \in (DOMAIN d) \ {key} |-> d[k]]

T_GptFallback == <<"h","u","m","a","n">>

DefaultIntent ==
    [intent |-> "unknown", extracted_info |-> EmptyDict, confidence |-> 0,
     should_escalate |-> FALSE]

\* _analyze_intent: intent_out is [kind |-> "error"], [kind |-> "garbage"] or
\* [kind |-> "json", parsed |-> dict]
analyze_intent(intent_out) ==
    IF intent_out.kind = "json" THEN intent_out.parsed ELSE DefaultIntent

\* the messages of the history handed to the completion service
GptMessages(history) == LastN(history, HISTORY_LIMIT)

\* GPTService.process_message: the stored history of the call after the
\* message, the messages sent and the dict returned
process_message(message, call_id, histories, chat_out, intent_out) ==
    LET appended == Append(Get(histories, call_id, << >>), Msg("user", message))
        sent == GptMessages(appended)
        fallback == [response |-> T_GptFallback, intent |-> "escalation",
                     should_escalate |-> TRUE]
    IN  IF chat_out.kind # "text"
        THEN [histories |-> Put(histories, call_id, appended), sent |-> sent,
              result |-> fallback]
        ELSE LET replied == Append(appended, Msg("assistant", chat_out.text))
                 analysis == analyze_intent(intent_out)
             IN  [histories |-> Put(histories, call_id, replied), sent |-> sent,
                  result |-> IF {"intent", "extracted_info", "confidence",
                                 "should_escalate"} \subseteq DOMAIN analysis
                             THEN [response |-> chat_out.text,
                                   intent |-> analysis.intent,
                                   should_escalate |-> analysis.should_escalate]
                             ELSE fallback]

\* a call of gpt_service.process_message
GptProcessMessage(call_id, message, chat_out, intent_out) ==
    LET r == process_message(message, call_id, conversation_history, chat_out, intent_out)
    IN  /\ conversation_history' = r.histories
        /\ resp' = [NoResp EXCEPT !.handler = "process_message",
                       !.speech = r.result.response, !.sent = r.sent,
                       !.say = r.result.intent,
                       !.directive = IF r.result.should_escalate THEN "ESCALATE"
                                     ELSE "CONTINUE"]
        /\ UNCHANGED << config, voice_state, app_call_history, now, simple_state >>

\* GPTService.clear_conversation_history
ClearConversationHistory(call_id) ==
    /\ conversation_history' = IF call_id \in DOMAIN conversation_history
                               THEN Remove(conversation_history, call_id)
                               ELSE conversation_history
    /\ resp' = [NoResp EXCEPT !.handler = "clear_conversation_history"]
    /\ UNCHANGED << config, voice_state, app_call_history, now, simple_state >>

(***************************************************************************)
(* Reply generation of app.py                                              *)
(***************************************************************************)
\* the f-string of the except branch: the apology with str(e) inside
AppApology(detail) == T_Apology \o << ":" >> \o detail

\* generate_ai_response of app.py: the reply, the histories after the call and
\* the messages sent
app_generate_ai_response(user_message, call_sid, key, history, chat_out) ==
    IF ~key THEN [reply |-> T_Apology, history |-> history, sent |-> << >>]
    ELSE LET stored == Get(history, call_sid, << >>)
             messages == Append(LastN(stored, APP_CONTEXT), Msg("user", user_message))
         IN  IF chat_out.kind = "text"
             THEN [ reply |-> chat_out.text,
                    history |-> Put(history, call_sid,
                                    stored \o << Msg("user", user_message),
                                                 Msg("assistant", chat_out.text) >>),
                    sent |-> messages ]
             ELSE [ reply |-> AppApology(chat_out.detail), history |-> history,
                    sent |-> messages ]

\* a call of generate_ai_response of app.py
AppGenerateAiResponse(call_sid, user_message, chat_out) ==
    LET r == app_generate_ai_response(user_message, call_sid, OPENAI_API_KEY,
                                      app_call_history, chat_out)
    IN  /\ app_call_history' = r.history
        /\ resp' = [NoResp EXCEPT !.handler = "app_generate_ai_response",
                       !.speech = r.reply, !.sent = r.sent, !.say = "reply"]
        /\ UNCHANGED << config, voice_state, now, simple_state, conversation_history >>

(***************************************************************************)
(* Reservation details of app.py                                           *)
(***************************************************************************)
PARTY_WORDS == << <<"p","e","o","p","l","e">>, <<"p","e","r","s","o","n">>, <<"p","a","r","t","y">> >>

\* any(word in text for word in words)
AnyIn(text, words) == \E i \in 1..Len(words) : Contains(text, words[i])

\* re.search(r'\d{3}[-.]?\d{3}[-.]?\d{4}', text): the first match or None; a
\* separator that is present is taken
PhoneSearch(text) ==
    LET Digits(a, n) == a + n - 1 <= Len(text) /\ \A j \in a..(a + n - 1) : IsDigit(text[j])
        Sep(a) == a <= Len(text) /\ text[a] \in {"-", "."}
        Fits(i, s1, s2) == /\ Digits(i, 3)
                           /\ s1 = 1 => Sep(i + 3)
                           /\ Digits(i + 3 + s1, 3)
                           /\ s2 = 1 => Sep(i + 6 + s1)
                           /\ Digits(i + 6 + s1 + s2, 4)
        MatchLen(i) == IF Fits(i, 1, 1) THEN 12 ELSE IF Fits(i, 1, 0) THEN 11
                       ELSE IF Fits(i, 0, 1) THEN 11 ELSE IF Fits(i, 0, 0) THEN 10 ELSE 0
        at == {i \in 1..Len(text) : MatchLen(i) > 0}
    IN  IF at = {} THEN None
        ELSE LET i == CHOOSE a \in at : \A b \in at : a <= b
             IN  Str(SubSeq(text, i, i + MatchLen(i) - 1))

\* re.search(r'(\d+)\s*(?:people|person|party)', text): int(group 1) or None
PartySearch(text) ==
    LET \* the end of the run of digits that starts at i
        DigitRunEnd(i) ==
            CHOOSE e \in i..Len(text) :
                /\ \A j \in i..e : IsDigit(text[j])
                /\ e = Len(text) \/ ~IsDigit(text[e + 1])
        \* the first position from k on that holds no blank
        SkipBlanks(k) ==
            CHOOSE a \in k..(Len(text) + 1) :
                /\ \A j \in k..(a - 1) : text[j] = " "
                /\ a = Len(text) + 1 \/ text[a] # " "
        at == {i \in 1..Len(text) :
                 /\ IsDigit(text[i])
                 /\ \E w \in 1..Len(PARTY_WORDS) :
                       OccursAt(text, PARTY_WORDS[w], SkipBlanks(DigitRunEnd(i) + 1))}
    IN  IF at = {} THEN None
        ELSE LET i == CHOOSE a \in at : \A b \in at : a <= b
             IN  [t |-> "int", v |-> IntOf(SubSeq(text, i, DigitRunEnd(i)))]

\* the body of the loop of extract_reservation_details for one user message
ExtractFromText(details, text) ==
    LET W_MyNameIs == <<"m","y"," ","n","a","m","e"," ","i","s">>
        W_NameIs == <<"n","a","m","e"," ","i","s">>
        DAY_WORDS == << <<"t","o","m","o","r","r","o","w">>, <<"t","o","d","a","y">>, <<"f","r","i","d","a","y">>, <<"s","a","t","u","r","d","a","y">>, <<"s","u","n","d","a","y">> >> \o
                     << <<"m","o","n","d","a","y">>, <<"t","u","e","s","d","a","y">>, <<"w","e","d","n","e","s","d","a","y">>, <<"t","h","u","r","s","d","a","y">> >>
        TIME_WORDS == << <<"a","m">>, <<"p","m">>, <<"o","'","c","l","o","c","k">> >>
        CONSENT_WORDS == << <<"y","e","s">>, <<"s","u","r","e">>, <<"o","k","a","y">>, <<"o","k">>, <<"t","e","x","t">>, <<"s","m","s">> >>
        CONSENT_TOPICS == << <<"r","e","s","e","r","v","a","t","i","o","n">>, <<"c","o","n","f","i","r","m","a","t","i","o","n">> >>
        Upper(ch) ==
            CASE ch = "a" -> "A" [] ch = "b" -> "B" [] ch = "c" -> "C" [] ch = "d" -> "D"
              [] ch = "e" -> "E" [] ch = "f" -> "F" [] ch = "g" -> "G" [] ch = "h" -> "H"
              [] ch = "i" -> "I" [] ch = "j" -> "J" [] ch = "k" -> "K" [] ch = "l" -> "L"
              [] ch = "m" -> "M" [] ch = "n" -> "N" [] ch = "o" -> "O" [] ch = "p" -> "P"
              [] ch = "q" -> "Q" [] ch = "r" -> "R" [] ch = "s" -> "S" [] ch = "t" -> "T"
              [] ch = "u" -> "U" [] ch = "v" -> "V" [] ch = "w" -> "W" [] ch = "x" -> "X"
              [] ch = "y" -> "Y" [] ch = "z" -> "Z" [] OTHER -> ch
        IsLetter(ch) == Lower(ch) # ch \/ Upper(ch) # ch
        \* str.title(): a letter after a non-letter is upper case, the others lower
        TitleText(s) ==
            [i \in 1..Len(s) |->
                IF i = 1 \/ ~IsLetter(s[i - 1]) THEN Upper(s[i]) ELSE Lower(s[i])]
        \* str.strip() on texts whose only white space is the blank
        StripText(s) ==
            LET solid == {i \in 1..Len(s) : s[i] # " "}
            IN  IF solid = {} THEN << >>
                ELSE SubSeq(s, CHOOSE i \in solid : \A j \in solid : i <= j,
                               CHOOSE i \in solid : \A j \in solid : j <= i)
    IN  [ name |-> IF Contains(text, W_MyNameIs)
                   THEN Str(TitleText(StripText(AfterLast(text, W_MyNameIs))))
                   ELSE IF Contains(text, W_NameIs)
                   THEN Str(TitleText(StripText(AfterLast(text, W_NameIs))))
                   ELSE details.name,
          phone |-> IF IsNone(PhoneSearch(text)) THEN details.phone ELSE PhoneSearch(text),
          party_size |-> IF AnyIn(text, PARTY_WORDS) /\ ~IsNone(PartySearch(text))
                         THEN PartySearch(text) ELSE details.party_size,
          date |-> IF AnyIn(text, DAY_WORDS) THEN Str(text) ELSE details.date,
          time |-> IF AnyIn(text, TIME_WORDS) THEN Str(text) ELSE details.time,
          sms_consent |-> IF AnyIn(text, CONSENT_WORDS) /\ AnyIn(text, CONSENT_TOPICS)
                          THEN [t |-> "bool", v |-> TRUE] ELSE details.sms_consent ]

\* extract_reservation_details: the loop over the messages of the history
RECURSIVE extract_reservation_details(_)
extract_reservation_details(conversation) ==
    IF conversation = << >>
    THEN [name |-> None, phone |-> None, party_size |-> None, date |-> None,
          time |-> None, sms_consent |-> [t |-> "bool", v |-> FALSE]]
    ELSE LET before == extract_reservation_details(SubSeq(conversation, 1, Len(conversation) - 1))
             msg == conversation[Len(conversation)]
         IN  IF msg.role = "user" THEN ExtractFromText(before, LowerText(msg.content))
             ELSE before

\* the test of process_speech that all the details of a reservation are
\* there, by Python's truth value of each field
DetailsComplete(d) ==
    LET Truthy(x) ==
            CASE x.t = "none" -> FALSE
              [] x.t = "str" -> x.v # << >>
              [] x.t = "int" -> x.v # 0
              [] OTHER -> x.v
    IN  Truthy(d.name) /\ Truthy(d.phone) /\ Truthy(d.party_size) /\ Truthy(d.date)
        /\ Truthy(d.time)

(***************************************************************************)
(* The routes of app/routes/voice.py                                       *)
(***************************************************************************)
\* a row of the calls table as handle_incoming_call creates it
NewCall == [status |-> "in-progress", escalated |-> FALSE]

\* GPTService.clear_conversation_history on the histories
clear_conversation_history(call_id, histories) ==
    IF call_id \in DOMAIN histories THEN Remove(histories, call_id) ELSE histories

\* handle_incoming_call: db_out is "ok" or "commit_error"; call_sid is unique
\* in the table.  A response without <Gather> or <Dial> ends the call when
\* its sentence has been spoken.
VoiceIncomingCall(call_sid, db_out) ==
    /\ IF db_out = "ok" /\ call_sid \notin DOMAIN call_records
       THEN /\ call_records' = Put(call_records, call_sid, NewCall)
            /\ resp' = [NoResp EXCEPT !.handler = "handle_incoming_call",
                           !.directive = "CONTINUE", !.say = "consent"]
       ELSE /\ UNCHANGED call_records
            /\ resp' = [NoResp EXCEPT !.handler = "handle_incoming_call",
                           !.directive = "TERMINATE", !.say = "error"]
    /\ UNCHANGED << config, in_flight, app_call_history, now, simple_state,
                    conversation_history >>

\* escalate_to_human as process_speech calls it: the table after it and the
\* response
escalate_to_human(call_sid, records, fallback) ==
    IF call_sid \notin DOMAIN records
    THEN [records |-> records, directive |-> "TERMINATE", say |-> "error"]
    ELSE [records |-> Put(records, call_sid, [status |-> "escalated", escalated |-> TRUE]),
          directive |-> "ESCALATE",
          say |-> IF fallback THEN "dial_human" ELSE "apology_callback"]

\* the completion-service calls process_message makes: the reply and, when
\* the reply came, the intent analysis
GptTrace(chat_out) ==
    IF chat_out.kind = "text" THEN << "chat_completion", "intent_completion" >>
    ELSE << "chat_completion" >>

\* the inputs of one request to /voice/process
VoiceTurn(text, conf, chat_out, intent_out, db_out) ==
    [text |-> text, conf |-> conf, chat_out |-> chat_out, intent_out |-> intent_out,
     db_out |-> db_out]

\* process_speech of voice.py
VoiceProcessSpeech(call_sid, in) ==
    LET didnt_catch == [NoResp EXCEPT !.handler = "voice_process_speech",
                           !.directive = "TERMINATE", !.say = "didnt_catch"]
    IN  /\ IF ~IsNumeric(in.conf) \/ call_sid \notin DOMAIN call_records
           THEN /\ resp' = didnt_catch
                /\ UNCHANGED << call_records, conversation_history >>
           ELSE LET r == process_message(in.text, call_sid, conversation_history,
                                         in.chat_out, in.intent_out)
                    e == escalate_to_human(call_sid, call_records, human_fallback_number)
                IN  /\ conversation_history' = r.histories
                    /\ IF in.db_out # "ok"
                       THEN /\ resp' = [didnt_catch EXCEPT !.trace = GptTrace(in.chat_out),
                                                           !.sent = r.sent]
                            /\ UNCHANGED call_records
                       ELSE IF r.result.should_escalate
                       THEN /\ resp' = [NoResp EXCEPT !.handler = "voice_process_speech",
                                           !.directive = e.directive, !.say = e.say,
                                           !.trace = GptTrace(in.chat_out), !.sent = r.sent]
                            /\ call_records' = e.records
                       ELSE /\ resp' = [NoResp EXCEPT !.handler = "voice_process_speech",
                                           !.directive = "CONTINUE", !.say = "reply",
                                           !.speech = r.result.response,
                                           !.trace = GptTrace(in.chat_out), !.sent = r.sent]
                            /\ UNCHANGED call_records
        /\ UNCHANGED << config, in_flight, app_call_history, now, simple_state >>

\* handle_call_status: the answer is "OK" on every path
VoiceCallStatus(call_sid, call_status, call_duration, db_out) ==
    /\ IF \/ call_sid \notin DOMAIN call_records
          \/ (call_duration # "" /\ ~IsDuration(call_duration))
          \/ db_out # "ok"
       THEN UNCHANGED << call_records, conversation_history >>
       ELSE /\ call_records' = Put(call_records, call_sid,
                                   [call_records[call_sid] EXCEPT !.status = call_status])
            /\ conversation_history' =
                   clear_conversation_history(call_sid, conversation_history)
    /\ resp' = [NoResp EXCEPT !.handler = "handle_call_status", !.say = "OK"]
    /\ UNCHANGED << config, in_flight, app_call_history, now, simple_state >>

(***************************************************************************)
(* The handlers of app.py; they share the table of calls with the routes   *)
(* of voice.py.                                                            *)
(***************************************************************************)
\* handle_call of app.py: create_call_record returns None when the insert
\* fails (storage error, or a call_sid that is already in the table)
AppHandleCall(call_sid, db_out) ==
    /\ call_records' = IF db_out = "ok" /\ call_sid \notin DOMAIN call_records
                       THEN Put(call_records, call_sid, NewCall) ELSE call_records
    /\ app_call_history' = IF call_sid \in DOMAIN app_call_history THEN app_call_history
                           ELSE Put(app_call_history, call_sid, << >>)
    /\ resp' = [NoResp EXCEPT !.handler = "app_handle_call", !.directive = "CONTINUE",
                   !.say = "greeting"]
    /\ UNCHANGED << config, in_flight, now, simple_state, conversation_history >>

\* process_speech of app.py; the lookup of the call record is outside any try
AppProcessSpeech(call_sid, speech_result, confidence, chat_out, db_out) ==
    LET req == [NoResp EXCEPT !.handler = "app_process_speech"]
        W_Reservation == <<"r","e","s","e","r","v","a","t","i","o","n">>
        DONE_WORDS == << <<"c","o","n","f","i","r","m","e","d">>, <<"b","o","o","k","e","d">>, <<"r","e","s","e","r","v","e","d">> >>
        call_record == call_sid \in DOMAIN call_records
        wanted == Contains(LowerText(speech_result), W_Reservation)
        r == app_generate_ai_response(speech_result, call_sid, OPENAI_API_KEY,
                                      app_call_history, chat_out)
        details == extract_reservation_details(Get(r.history, call_sid, << >>))
        saved == IF call_record THEN << "save_transcript" >> ELSE << >>
    IN  /\ IF \/ db_out # "ok"
              \/ ~IsNumeric(confidence) /\ (call_record \/ speech_result # << >>)
           THEN \* the lookup of the call or float(confidence) raises
                /\ resp' = [req EXCEPT !.status = 500]
                /\ UNCHANGED app_call_history
           ELSE IF speech_result = << >> \/ FloatOf(confidence) < CONFIDENCE_THRESHOLD
           THEN /\ resp' = [req EXCEPT !.directive = "CONTINUE", !.say = "reprompt",
                               !.trace = saved]
                /\ UNCHANGED app_call_history
           ELSE /\ app_call_history' = r.history
                /\ resp' = [req EXCEPT
                      !.say = "reply", !.speech = r.reply, !.sent = r.sent,
                      !.draft = IF call_record /\ wanted
                                THEN [ran |-> TRUE, details |-> details]
                                ELSE [ran |-> FALSE],
                      !.trace = saved \o << "chat_completion" >> \o saved
                                \o (IF call_record /\ wanted /\ DetailsComplete(details)
                                    THEN << "create_reservation" >> ELSE << >>),
                      !.directive = IF wanted /\ AnyIn(LowerText(r.reply), DONE_WORDS)
                                    THEN "TERMINATE" ELSE "CONTINUE"]
        /\ UNCHANGED << config, voice_state, now, simple_state, conversation_history >>

(***************************************************************************)
(* process_message in the steps between which another request can be       *)
(* served when the completion call gives up control: the part before the   *)
(* call, the answer of the service, the part after the call.               *)
(***************************************************************************)
Waiting == [kind |-> "waiting"]

\* process_message up to the completion call (lines 57-85)
GptBegin(call_id, message) ==
    LET appended == Append(Get(conversation_history, call_id, << >>), Msg("user", message))
    IN  /\ call_id \notin DOMAIN in_flight
        /\ conversation_history' = Put(conversation_history, call_id, appended)
        /\ in_flight' = Put(in_flight, call_id,
                            [message |-> message, sent |-> GptMessages(appended),
                             answer |-> Waiting])
        /\ resp' = [NoResp EXCEPT !.handler = "process_message_call",
                       !.sent = GptMessages(appended), !.trace = << "chat_completion" >>]
        /\ UNCHANGED << config, call_records, app_call_history, now, simple_state >>

\* the completion service returns or raises
CompletionAnswers(call_id, chat_out) ==
    /\ call_id \in DOMAIN in_flight
    /\ in_flight[call_id].answer = Waiting
    /\ in_flight' = Put(in_flight, call_id, [in_flight[call_id] EXCEPT !.answer = chat_out])
    /\ UNCHANGED << config, call_records, app_call_history, now, simple_state,
                    conversation_history, resp >>

\* the rest of process_message that stores the reply under a fresh entry when
\* the entry of the call is gone
finish_message_recreates(call_id, histories, turn, intent_out) ==
    LET fallback == [response |-> T_GptFallback, intent |-> "escalation",
                     should_escalate |-> TRUE]
    IN  IF turn.answer.kind # "text"
        THEN [histories |-> histories, result |-> fallback, trace |-> << "chat_completion" >>]
        ELSE LET replied == Append(Get(histories, call_id, << >>),
                                   Msg("assistant", turn.answer.text))
                 analysis == analyze_intent(intent_out)
             IN  [histories |-> Put(histories, call_id, replied),
                  result |-> [response |-> turn.answer.text, intent |-> analysis.intent,
                              should_escalate |-> analysis.should_escalate],
                  trace |-> << "chat_completion", "intent_completion" >>]

\* the rest of process_message (lines 87-114): the histories after it, the
\* dict returned and what happened; the append to a missing entry raises
\* KeyError, which the except branch turns into the fallback
finish_message(call_id, histories, turn, intent_out) ==
    LET fallback == [response |-> T_GptFallback, intent |-> "escalation",
                     should_escalate |-> TRUE]
    IN  IF turn.answer.kind # "text"
        THEN [histories |-> histories, result |-> fallback, trace |-> << "chat_completion" >>]
        ELSE IF call_id \notin DOMAIN histories
        THEN [histories |-> histories, result |-> fallback,
              trace |-> << "chat_completion", "KeyError" >>]
        ELSE LET replied == Append(histories[call_id], Msg("assistant", turn.answer.text))
                 analysis == analyze_intent(intent_out)
             IN  [histories |-> Put(histories, call_id, replied),
                  result |-> IF {"intent", "extracted_info", "confidence",
                                 "should_escalate"} \subseteq DOMAIN analysis
                             THEN [response |-> turn.answer.text,
                                   intent |-> analysis.intent,
                                   should_escalate |-> analysis.should_escalate]
                             ELSE fallback,
                  trace |-> << "chat_completion", "intent_completion" >>]

\* process_message after the completion call has returned or raised
GptFinish(call_id, intent_out) ==
    /\ call_id \in DOMAIN in_flight
    /\ in_flight[call_id].answer # Waiting
    /\ LET r == finish_message(call_id, conversation_history, in_flight[call_id], intent_out)
       IN  /\ conversation_history' = r.histories
           /\ resp' = [NoResp EXCEPT !.handler = "process_message",
                          !.speech = r.result.response, !.sent = in_flight[call_id].sent,
                          !.say = r.result.intent, !.trace = r.trace,
                          !.directive = IF r.result.should_escalate THEN "ESCALATE"
                                        ELSE "CONTINUE"]
    /\ in_flight' = Remove(in_flight, call_id)
    /\ UNCHANGED << config, call_records, app_call_history, now, simple_state >>

(***************************************************************************)
(* The telephony layer                                                     *)
(***************************************************************************)
\* the sentence after the <Gather> of a response, which is spoken before the
\* <Hangup/> when the gather ends without speech
AfterGather(say) ==
    CASE say = "greeting" -> "didnt_hear"
      [] say = "reprompt" -> "still_trouble"
      [] say = "reply" -> "thank_you"
      [] OTHER -> "none"

\* the caller stays silent after a response that armed speech capture: no
\* request is made, the rest of the response is played and the call ends
GatherTimeout ==
    /\ resp.handler \in {"handle_call", "process_speech"}
    /\ resp.directive = "CONTINUE"
    /\ resp' = [resp EXCEPT !.handler = "telephony", !.directive = "TERMINATE",
                            !.say = AfterGather(resp.say)]
    /\ UNCHANGED << config, voice_state, app_call_history, now, simple_state, conversation_history >>

\* time passes between two requests
Tick(t) ==
    /\ t > now
    /\ now' = t
    /\ UNCHANGED << config, voice_state, app_call_history, simple_state, conversation_history, resp >>

(***************************************************************************)
(* Answers of the collaborators                                            *)
(***************************************************************************)
Err == [kind |-> "error"]
\* a failure of the completion call with the text of its exception
ErrOf(detail) == [kind |-> "error", detail |-> detail]
Text(s) == [kind |-> "text", text |-> s]
Json(d) == [kind |-> "json", parsed |-> d]

Details(name) ==
    [name |-> Str(name), phone |-> Str(<<"5","5","5">>), party_size |-> Str(<<"2">>),
     date |-> Str(<<"f","r","i">>), time |-> Str(<<"7","p","m">>)]

A_Incomplete ==
    Json([reservation_complete |-> FALSE, sms_consent |-> "unknown",
          details |-> [name |-> Str(T_Ana)]])
A_Complete ==
    Json([reservation_complete |-> TRUE, sms_consent |-> "yes", details |-> Details(T_Ana)])
A_Hitler ==
    Json([reservation_complete |-> TRUE, sms_consent |-> "yes", details |-> Details(T_Hitler)])

\* answers of the extractor that are not the JSON object asked for
A_Garbage == [kind |-> "garbage"]
A_MissingFlag == Json([sms_consent |-> "yes", details |-> Details(T_Ana)])
A_MissingConsent == Json([reservation_complete |-> TRUE, details |-> Details(T_Ana)])
A_KeyList == [kind |-> "json_list", parsed |-> << "reservation_complete", "sms_consent" >>]
A_OtherList == [kind |-> "json_list", parsed |-> << "reservation_complete" >>]
\* answers that report a complete reservation with fields missing or null
A_NameOnly ==
    Json([reservation_complete |-> TRUE, sms_consent |-> "yes",
          details |-> [name |-> Str(T_Ana)]])
A_NullPhone ==
    Json([reservation_complete |-> TRUE, sms_consent |-> "yes",
          details |-> [Details(T_Ana) EXCEPT !.phone = None]])
A_NullName ==
    Json([reservation_complete |-> TRUE, sms_consent |-> "yes",
          details |-> [Details(T_Ana) EXCEPT !.name = None]])
A_NullDetails ==
    Json([reservation_complete |-> TRUE, sms_consent |-> "yes", details |-> None])

(***************************************************************************)
(* Initial state: nothing stored; the configuration is drawn from the sets *)
(***************************************************************************)
InitAll(keys, dbs, fallbacks) ==
    /\ OPENAI_API_KEY \in keys
    /\ DATABASE_AVAILABLE \in dbs
    /\ human_fallback_number \in fallbacks
    /\ call_records = EmptyDict
    /\ in_flight = EmptyDict
    /\ now = 0
    /\ call_rate_limit = [p \in Phones |-> << >>]
    /\ blocked_numbers = {}
    /\ moderation_flags = [p \in Phones |-> 0]
    /\ call_history = EmptyDict
    /\ call_languages = EmptyDict
    /\ reservation_state = EmptyDict
    /\ last_analysis = EmptyDict
    /\ reservation_log = << >>
    /\ conversation_history = EmptyDict
    /\ app_call_history = EmptyDict
    /\ resp = NoResp

\* settings.human_fallback_number is None unless the environment sets it
InitWith(keys, dbs) == InitAll(keys, dbs, {FALSE})

Init == InitWith(BOOLEAN, BOOLEAN)

\* the inputs of one turn
Turn(text, conf, chat_out, ana_out) ==
    [text |-> text, conf |-> conf, chat_out |-> chat_out, ana_out |-> ana_out]

Speech(c, p, in) == ProcessSpeech(c, p, in.text, in.conf, Err, in.chat_out, in.ana_out)

StoredLen(c) == Len(Get(call_history, c, << >>))

\* the inputs of one turn with the answer of the remote language detector
TurnL(text, conf, lang_out, chat_out, ana_out) ==
    [text |-> text, conf |-> conf, lang_out |-> lang_out, chat_out |-> chat_out,
     ana_out |-> ana_out]

SpeechL(c, p, in) ==
    ProcessSpeech(c, p, in.text, in.conf, in.lang_out, in.chat_out, in.ana_out)

(***************************************************************************)
(* Spec: the abuse guard (moderation, blocking, unblocking, call-starts of *)
(* blocked callers) for two callers.                                       *)
(***************************************************************************)
GuardTurns ==
    { Turn(T_Damn, "0.9", Err, Err), Turn(T_TestHack, "0.3", Err, Err),
      Turn(T_Empty, "0", Err, Err), Turn(T_Hola, "0.3", Err, Err),
      Turn(T_Hola, "abc", Err, Err), Turn(T_Hola, "0.9", Text(T_Ok), A_Incomplete) }
GuardInstants == {3600}
GuardCalls == {"CA1"}

Next ==
    \/ \E c \in GuardCalls, p \in Phones :
          /\ Len(call_rate_limit[p]) < MaxStarts \/ p \in blocked_numbers
          /\ HandleCall(c, p)
    \/ \E c \in GuardCalls, p \in Phones, in \in GuardTurns :
          /\ StoredLen(c) < 2 * MaxTurns
          /\ Speech(c, p, in)
    \/ \E p \in Phones \cup {""} : UnblockNumber(p)
    \/ \E t \in GuardInstants : Tick(t)

Spec == Init /\ [][Next]_vars

(***************************************************************************)
(* SpecRate: the sliding window of one caller, through the expiry of the   *)
(* window, with blocking and unblocking.                                   *)
(***************************************************************************)
RateCalls == {"CA1"}
RatePhones == {"+15550100"}
RateTurns == { Turn(T_Damn, "0.9", Err, Err) }
RateInstants == {RATE_WINDOW - 1, RATE_WINDOW}

NextRate ==
    \/ \E c \in RateCalls, p \in RatePhones : HandleCall(c, p)
    \/ \E c \in RateCalls, p \in RatePhones, in \in RateTurns : Speech(c, p, in)
    \/ \E p \in RatePhones : UnblockNumber(p)
    \/ \E t \in RateInstants : Tick(t)

SpecRate == InitWith({TRUE}, BOOLEAN) /\ [][NextRate]_vars

(***************************************************************************)
(* SpecReservation: reservations of two callers over two calls, around the *)
(* end of the cooldown.                                                    *)
(***************************************************************************)
ReservationTurns ==
    { Turn(T_Hola, "0.9", Text(T_Ok), A_Complete),
      Turn(T_Hola, "0.9", Err, A_Complete),
      Turn(T_Hola, "0.9", Err, A_Hitler) }
ReservationInstants ==
    {RESERVATION_COOLDOWN - 1, RESERVATION_COOLDOWN, 2 * RESERVATION_COOLDOWN - 1}

NextReservation ==
    \/ \E c \in CallSids, p \in Phones, in \in ReservationTurns :
          /\ Len(reservation_log) < MaxReservations
          /\ Speech(c, p, in)
          /\ Len(Get(call_history', c, << >>)) <= MaxTurns + 1
    \/ \E t \in ReservationInstants : Tick(t)

SpecReservation == InitWith(BOOLEAN, {TRUE}) /\ [][NextReservation]_vars

(***************************************************************************)
(* SpecMemory: the conversation memories over many turns, with failures of *)
(* the completion service; the messages stored in the process are bounded  *)
(* by MaxStored.                                                           *)
(***************************************************************************)
I_Question ==
    Json([intent |-> "question", extracted_info |-> EmptyDict, confidence |-> 90,
          should_escalate |-> FALSE])

\* call sid and caller of the calls; the second call has neither form field
MemoryCalls == { << "CA1", "+15550100" >>, << "unknown", "unknown" >> }
MemoryTurns ==
    { Turn(T_Hola, "0.9", Text(T_Ok), A_Incomplete), Turn(T_Hola, "0.9", Err, A_Incomplete) }
GptCalls == {"CA1"}

TotalStored ==
    LET SumLen(d) == IF DOMAIN d = {} THEN 0
                     ELSE LET RECURSIVE S(_)
                              S(K) == IF K = {} THEN 0
                                      ELSE LET k == CHOOSE x \in K : TRUE
                                           IN  Len(d[k]) + S(K \ {k})
                          IN  S(DOMAIN d)
    IN  SumLen(call_history) + SumLen(conversation_history)

NextMemory ==
    \/ \E cp \in MemoryCalls :
          /\ cp[1] \notin DOMAIN call_history
          /\ HandleCall(cp[1], cp[2])
    \/ \E cp \in MemoryCalls, in \in MemoryTurns :
          /\ TotalStored < MaxStored
          /\ Speech(cp[1], cp[2], in)
    \/ \E c \in GptCalls, chat_out \in {Text(T_Ok), Err} :
          /\ TotalStored < MaxStored
          /\ GptProcessMessage(c, T_Hola, chat_out, I_Question)
    \/ \E c \in GptCalls :
          /\ c \in DOMAIN conversation_history
          /\ ClearConversationHistory(c)

SpecMemory == InitWith({TRUE}, {FALSE}) /\ [][NextMemory]_vars

(***************************************************************************)
(* SpecLanguage: turns in several languages on two calls, with and without *)
(* an answer of the remote language detector.                              *)
(***************************************************************************)
LanguageCalls == { << "CA1", "+15550100" >>, << "unknown", "unknown" >> }
LanguageTurns ==
    { TurnL(T_Hola, "0.9", Err, Text(T_Ok), A_Incomplete),
      TurnL(T_Bonjour, "0.9", Err, Text(T_Ok), A_Incomplete),
      TurnL(T_Hello, "0.9", Text(<<"D","E">>), Text(T_Ok), A_Incomplete),
      TurnL(T_Hello, "0.9", Err, Err, A_Incomplete) }

NextLanguage ==
    \/ \E cp \in LanguageCalls :
          /\ cp[1] \notin DOMAIN call_history
          /\ HandleCall(cp[1], cp[2])
    \/ \E cp \in LanguageCalls, in \in LanguageTurns :
          /\ StoredLen(cp[1]) < 2 * (MaxTurns + 1)
          /\ SpeechL(cp[1], cp[2], in)

SpecLanguage == InitWith({TRUE}, {FALSE}) /\ [][NextLanguage]_vars

(***************************************************************************)
(* SpecExtract: the turns of one call under every kind of answer of the    *)
(* reservation extractor, with and without the credential.                 *)
(***************************************************************************)
ExtractCalls == { << "CA1", "+15550100" >> }
FaultyExtractions ==
    { Err, A_Garbage, A_MissingFlag, A_MissingConsent, A_KeyList, A_OtherList }
IncompleteExtractions ==
    { A_Incomplete, Err, A_Garbage, A_MissingFlag, A_MissingConsent, A_OtherList }
RaisingExtractions == { A_NullName, A_NullDetails, A_KeyList }
ExtractTurns ==
    { Turn(T_Hola, "0.9", Text(T_Ok), a) :
        a \in FaultyExtractions \cup
              { A_Incomplete, A_Complete, A_Hitler, A_NameOnly, A_NullPhone,
                A_NullName, A_NullDetails } }
    \cup { Turn(T_Hola, "0.9", Err, A_Complete), Turn(T_Hola, "abc", Text(T_Ok), A_Incomplete) }
ExtractInstants == {RESERVATION_COOLDOWN}

NextExtract ==
    \/ \E cp \in ExtractCalls, in \in ExtractTurns :
          /\ Len(reservation_log) < MaxReservations
          /\ StoredLen(cp[1]) < 2 * (MaxTurns + 1)
          /\ Speech(cp[1], cp[2], in)
    \/ \E t \in ExtractInstants : Tick(t)

SpecExtract == InitWith(BOOLEAN, {TRUE}) /\ [][NextExtract]_vars

(***************************************************************************)
(* SpecFailure: failures of the conversational completion call in the      *)
(* three reply generators (app_simple.py, app.py, GPTService).             *)
(***************************************************************************)
FailureCalls == { << "CA1", "+15550100" >> }
ChatFailures == { ErrOf(T_Timeout), ErrOf(T_Refused) }
FailureTurns ==
    { Turn(T_Hola, "0.9", chat_out, a) :
        chat_out \in ChatFailures \cup {Text(T_Ok)}, a \in {A_Incomplete, A_Complete} }

NextFailure ==
    \/ \E cp \in FailureCalls, in \in FailureTurns :
          /\ Len(reservation_log) < MaxReservations
          /\ StoredLen(cp[1]) < 2 * MaxTurns
          /\ Speech(cp[1], cp[2], in)
    \/ \E cp \in FailureCalls, chat_out \in ChatFailures \cup {Text(T_Ok)} :
          /\ Len(Get(app_call_history, cp[1], << >>)) < 2 * (MaxTurns + 1)
          /\ AppGenerateAiResponse(cp[1], T_Hola, chat_out)
    \/ \E cp \in FailureCalls, chat_out \in ChatFailures \cup {Text(T_Ok)} :
          /\ Len(Get(conversation_history, cp[1], << >>)) < 2 * MaxTurns
          /\ GptProcessMessage(cp[1], T_Hola, chat_out, I_Question)

SpecFailure == InitWith(BOOLEAN, {TRUE}) /\ [][NextFailure]_vars

(***************************************************************************)
(* SpecNoInput: empty and low-confidence utterances of two callers on one  *)
(* call, with keyword texts and with silence after a response.             *)
(***************************************************************************)
NoInputCalls == {"CA1"}
NoInputTurns ==
    { Turn(T_Empty, "0", Err, Err), Turn(T_Empty, "0.9", Err, Err),
      Turn(T_Hola, "0.3", Err, Err), Turn(T_TestHack, "0.3", Err, Err),
      Turn(T_Damn, "0.9", Err, Err), Turn(T_Hola, "0.9", Text(T_Ok), A_Incomplete) }

NextNoInput ==
    \/ \E c \in NoInputCalls, p \in Phones :
          /\ Len(call_rate_limit[p]) < MaxStarts
          /\ HandleCall(c, p)
    \/ \E c \in NoInputCalls, p \in Phones, in \in NoInputTurns :
          /\ StoredLen(c) < 2 * MaxTurns
          /\ Speech(c, p, in)
    \/ GatherTimeout

SpecNoInput == InitWith({TRUE}, {FALSE}) /\ [][NextNoInput]_vars

(***************************************************************************)
(* SpecVoice: the routes of voice.py on two calls: call start, turns with   *)
(* the answers of the completion service and of storage, status callbacks.  *)
(***************************************************************************)
I_Escalation ==
    Json([intent |-> "escalation", extracted_info |-> EmptyDict, confidence |-> 90,
          should_escalate |-> FALSE])
I_Human ==
    Json([intent |-> "question", extracted_info |-> EmptyDict, confidence |-> 90,
          should_escalate |-> TRUE])

\* valid JSON without the confidence and should_escalate keys
I_MissingKeys == Json([intent |-> "question", extracted_info |-> EmptyDict])

VoiceTurns ==
    { VoiceTurn(T_Hola, "0.9", Text(T_Ok), I_Question, "ok"),
      VoiceTurn(T_Damn, "0.9", Text(T_Ok), I_Question, "ok"),
      VoiceTurn(T_Hola, "0.9", Text(T_Ok), I_Escalation, "ok"),
      VoiceTurn(T_Hola, "0.9", Text(T_Ok), I_Human, "ok"),
      VoiceTurn(T_Hola, "0.9", Err, I_Question, "ok"),
      VoiceTurn(T_Hola, "0.9", Text(T_Ok), Err, "ok"),
      VoiceTurn(T_Hola, "0.9", Text(T_Ok), I_MissingKeys, "ok"),
      VoiceTurn(T_Hola, "abc", Text(T_Ok), I_Question, "ok"),
      VoiceTurn(T_Hola, "0.9", Text(T_Ok), I_Question, "commit_error") }
DbAnswers == {"ok", "commit_error"}
EndStatuses == {"completed", "failed"}
CallDurations == {"", "42", "abc"}

NextVoice ==
    \/ \E c \in CallSids, db_out \in DbAnswers : VoiceIncomingCall(c, db_out)
    \/ \E c \in CallSids, in \in VoiceTurns :
          /\ Len(Get(conversation_history, c, << >>)) < 2 * MaxTurns
          /\ VoiceProcessSpeech(c, in)
    \/ \E c \in CallSids, st \in EndStatuses, d \in CallDurations, db_out \in DbAnswers :
          VoiceCallStatus(c, st, d, db_out)

SpecVoice == InitAll({TRUE}, {FALSE}, BOOLEAN) /\ [][NextVoice]_vars

(***************************************************************************)
(* SpecRace: turns of process_message in steps, with clears and status     *)
(* callbacks arriving between the steps.  SpecTimeout adds what the code's *)
(* scheduling gives: once the completion call has returned or raised, the  *)
(* rest of process_message runs.  Nothing makes the service answer.        *)
(***************************************************************************)
RaceAnswers == {Text(T_Ok), Err}
RaceIntents == {I_Question, I_Human, Err}

NextRace ==
    \/ \E c \in CallSids : VoiceIncomingCall(c, "ok")
    \/ \E c \in CallSids :
          /\ Len(Get(conversation_history, c, << >>)) < 2 * MaxTurns
          /\ GptBegin(c, T_Hola)
    \/ \E c \in CallSids, chat_out \in RaceAnswers : CompletionAnswers(c, chat_out)
    \/ \E c \in CallSids, intent_out \in RaceIntents : GptFinish(c, intent_out)
    \/ \E c \in CallSids : ClearConversationHistory(c)
    \/ \E c \in CallSids, st \in EndStatuses : VoiceCallStatus(c, st, "42", "ok")

SpecRace == InitWith({TRUE}, {FALSE}) /\ [][NextRace]_vars

SpecTimeout ==
    SpecRace /\ \A c \in CallSids : WF_vars(\E intent_out \in RaceIntents : GptFinish(c, intent_out))

(***************************************************************************)
(* SpecRejected: answered turns and turns that are refused before the      *)
(* reply (flagged, empty, low confidence) on one call.                     *)
(***************************************************************************)
RejectedCalls == {"CA1"}
RejectedTurns ==
    { Turn(T_Hola, "0.9", Text(T_Ok), A_Incomplete), Turn(T_Damn, "0.9", Text(T_Ok), A_Incomplete),
      Turn(T_Empty, "0", Text(T_Ok), A_Incomplete), Turn(T_Bonjour, "0.3", Text(T_Ok), A_Incomplete) }

NextRejected ==
    \/ \E c \in RejectedCalls, p \in Phones :
          /\ Len(call_rate_limit[p]) < MaxStarts
          /\ HandleCall(c, p)
    \/ \E c \in RejectedCalls, p \in Phones, in \in RejectedTurns :
          /\ in.text = T_Hola => StoredLen(c) < 2 * MaxTurns
          /\ Speech(c, p, in)

SpecRejected == InitWith({TRUE}, BOOLEAN) /\ [][NextRejected]_vars

(***************************************************************************)
(* SpecApp: the handlers of app.py on one call, with turns that give the    *)
(* details of a reservation piece by piece.                                *)
(***************************************************************************)
AppCalls == {"CA1"}
AppTurns ==
    LET T_NameTurn == <<"M","y"," ","n","a","m","e"," ","i","s"," ","A","n","a"," ","5","5","5","1","2","3","4","5","6","7">>
        T_ReserveTurn == <<"R","e","s","e","r","v","a","t","i","o","n"," ","2"," ","p","e","o","p","l","e"," ","F","r","i","d","a","y"," ","7","p","m">>
        T_Confirmed == <<"T","a","b","l","e"," ","c","o","n","f","i","r","m","e","d">>
    IN  { << text, "0.9", chat_out, "ok" >> :
            text \in {T_Hola, T_NameTurn, T_ReserveTurn},
            chat_out \in {Text(T_Ok), Text(T_Confirmed), ErrOf(T_Timeout)} }
        \cup { << T_Empty, "0", Text(T_Ok), "ok" >>, << T_Hola, "0.3", Text(T_Ok), "ok" >>,
               << T_Hola, "abc", Text(T_Ok), "ok" >>, << T_Hola, "0.9", Text(T_Ok), "error" >> }

NextApp ==
    \/ \E c \in AppCalls, db_out \in DbAnswers : AppHandleCall(c, db_out)
    \/ \E c \in AppCalls, in \in AppTurns :
          /\ Len(Get(app_call_history, c, << >>)) < 2 * (MaxTurns + 1)
          /\ AppProcessSpeech(c, in[1], in[2], in[3], in[4])

SpecApp == InitWith({TRUE}, {FALSE}) /\ [][NextApp]_vars

(***************************************************************************)
(* SpecShared: two calls of one caller served side by side.  The handlers  *)
(* have no await between the read and the write of the caller's record, so *)
(* the requests of the two calls interleave as whole steps.                *)
(***************************************************************************)
SharedPhones == {"+15550100"}
SharedTurns == { Turn(T_Damn, "0.9", Err, Err), Turn(T_Hola, "0.3", Err, Err) }
SharedInstants == {RATE_WINDOW - 1, RATE_WINDOW}

NextShared ==
    \/ \E c \in CallSids, p \in SharedPhones : HandleCall(c, p)
    \/ \E c \in CallSids, p \in SharedPhones, in \in SharedTurns : Speech(c, p, in)
    \/ \E p \in SharedPhones : UnblockNumber(p)
    \/ \E t \in SharedInstants : Tick(t)

SpecShared == InitWith({TRUE}, {FALSE}) /\ [][NextShared]_vars

(***************************************************************************)
(* Properties of the abuse guard                                           *)
(***************************************************************************)
\* the category a keyword text of the model is expected to be flagged with
ExpectedCategory(text) ==
    CASE text = T_Damn -> "profanity"
      [] text = T_TestHack -> "spam_indicators"
      [] OTHER -> "none"

\* C2: every moderate_content call on a text with a configured keyword (any
\* letter case) adds one to the caller's flag counter and returns a non-safe
\* result that names the category; the call that brings the counter to 3 adds
\* the caller to the blocked set and returns "account_blocked", which the
\* turn handler answers with a hang-up.
C2_KeywordFlagging ==
    [][ \A c \in GuardCalls, p \in Phones, in \in GuardTurns :
          ( /\ ExpectedCategory(in.text) # "none"
            /\ IsNumeric(in.conf)
            /\ Speech(c, p, in) )
          => /\ moderation_flags'[p] = moderation_flags[p] + 1
             /\ resp'.mod \in {ExpectedCategory(in.text), "account_blocked"}
             /\ resp'.mod = "account_blocked" <=> moderation_flags'[p] >= MAX_MODERATION_FLAGS
             /\ moderation_flags'[p] = MAX_MODERATION_FLAGS
                   => /\ p \in blocked_numbers'
                      /\ resp'.directive = "TERMINATE"
                      /\ resp'.say = "account_blocked"
             /\ moderation_flags'[p] < MAX_MODERATION_FLAGS
                   => /\ blocked_numbers' = blocked_numbers
                      /\ resp'.directive = "CONTINUE" ]_vars

C2_Witness ==
    /\ resp.handler = "process_speech"
    /\ resp.mod = "account_blocked"
    /\ resp.directive = "TERMINATE"
    /\ \E p \in Phones : p \in blocked_numbers /\ moderation_flags[p] = MAX_MODERATION_FLAGS

\* C3: a caller in the blocked set stays in it, however much time passes,
\* until an unblock of that caller, and every call-start of a blocked caller
\* is rejected with the hang-up message.
C3_BlockedStaysBlocked ==
    [][ \A p \in Phones :
          p \in blocked_numbers
          => /\ p \in blocked_numbers' \/ UnblockNumber(p)
             /\ \A c \in GuardCalls :
                   HandleCall(c, p)
                   => /\ resp'.say = "rate_limited"
                      /\ resp'.directive = "TERMINATE"
                      /\ call_history' = call_history ]_vars

C3_Witness ==
    /\ resp.handler = "handle_call"
    /\ resp.say = "rate_limited"
    /\ now >= RATE_WINDOW
    /\ \E p \in Phones : p \in blocked_numbers /\ Len(call_rate_limit[p]) = 1

\* C5 as claimed: after unblock(caller), whatever the caller's state was, the
\* caller is not blocked and the caller's flag counter is zero.
C5_Original ==
    [][ \A p \in Phones :
          UnblockNumber(p) => /\ p \notin blocked_numbers'
                              /\ moderation_flags'[p] = 0 ]_vars

\* C5 as amended: after unblock(caller) the caller is not blocked; the flag
\* counter is zero if the caller was blocked and is unchanged otherwise.
C5_UnblockResets ==
    [][ \A p \in Phones :
          UnblockNumber(p)
          => /\ p \notin blocked_numbers'
             /\ moderation_flags'[p] = IF p \in blocked_numbers THEN 0
                                       ELSE moderation_flags[p] ]_vars

C5_Witness ==
    /\ resp.handler = "unblock_number"
    /\ resp.say = "unblocked"
    /\ \E p \in Phones : p \notin blocked_numbers /\ moderation_flags[p] = 0
                         /\ Len(call_rate_limit[p]) > 0

\* C6: unblock of a caller that is not blocked returns normally and leaves
\* the blocked set, the flag counters and the rate-limit windows unchanged;
\* after any unblock the caller is not blocked, so that a second unblock is
\* such a no-op.
C6_UnblockIdempotent ==
    [][ \A p \in Phones :
          UnblockNumber(p)
          => /\ resp'.status = 200
             /\ p \notin blocked_numbers'
             /\ p \notin blocked_numbers
                   => /\ resp'.say = "was not blocked"
                      /\ UNCHANGED << blocked_numbers, moderation_flags,
                                      call_rate_limit >> ]_vars

C6_Witness ==
    /\ resp.handler = "unblock_number"
    /\ resp.say = "was not blocked"
    /\ \E p \in Phones : p \notin blocked_numbers /\ moderation_flags[p] > 0

(***************************************************************************)
(* Properties of the rate limit                                            *)
(***************************************************************************)
\* the call-starts of the caller admitted within the window that ends now
AdmittedInWindow(p) ==
    Cardinality({ i \in 1..Len(call_rate_limit[p]) : now - call_rate_limit[p][i] < RATE_WINDOW })

\* C1: once 5 call-starts of a caller have been admitted within the window,
\* the next call-start of that caller inside the window is rejected with the
\* hang-up message, and the rejection comes before any downstream service
\* (storage, completion) is invoked for the call.
C1_RejectedBeforeDownstream ==
    [][ \A c \in RateCalls, p \in RatePhones :
          ( AdmittedInWindow(p) >= MAX_CALLS_PER_HOUR /\ HandleCall(c, p) )
          => /\ resp'.say = "rate_limited"
             /\ resp'.directive = "TERMINATE"
             /\ resp'.trace[1] = "is_rate_limited" ]_vars

(***************************************************************************)
(* Properties of the reservation cooldown                                  *)
(***************************************************************************)
\* the times of the reservations of the caller handed to log_reservation
AcceptedTimes(p) ==
    { reservation_log[i].time : i \in { j \in 1..Len(reservation_log) :
                                          reservation_log[j].phone = p } }

MaxOf(S) == CHOOSE x \in S : \A y \in S : y <= x

\* C7: after a reservation of a caller was accepted at time t, the
\* validation of an otherwise valid draft of the same caller at time t2 is
\* rejected as "too_frequent" when t2 - t < 300 and succeeds when
\* t2 - t >= 300, whichever call the draft comes from.  The steps are the
\* turns in which validate_reservation_data is called: the utterance passed
\* moderation and the extractor reported a complete draft.
C7_Cooldown ==
    [][ \A c \in CallSids, p \in Phones, in \in ReservationTurns :
          ( /\ OPENAI_API_KEY
            /\ in.ana_out = A_Complete
            /\ AcceptedTimes(p) # {}
            /\ resp'.mod = "safe"
            /\ resp'.valid # "none"
            /\ Speech(c, p, in) )
          => LET t == MaxOf(AcceptedTimes(p))
             IN  /\ now - t < RESERVATION_COOLDOWN
                       => /\ resp'.valid = "too_frequent"
                          /\ resp'.directive = "CONTINUE"
                          /\ reservation_log' = reservation_log
                 /\ now - t >= RESERVATION_COOLDOWN
                       => /\ resp'.valid = "valid"
                          /\ Len(reservation_log') = Len(reservation_log) + 1 ]_vars

\* a caller was accepted on one call, refused on another call inside the
\* cooldown and accepted again at its end
C7_Witness ==
    /\ Len(reservation_log) = 2
    /\ reservation_log[1].phone = reservation_log[2].phone
    /\ reservation_log[1].call_sid # reservation_log[2].call_sid
    /\ reservation_log[2].time - reservation_log[1].time = RESERVATION_COOLDOWN
    /\ resp.valid = "valid"

\* C8: the caller's last-reservation time is written once for each accepted
\* reservation, with the time of the acceptance, and by nothing else: a
\* validation that returns invalid leaves it as it was.
C8_MarkOnlyOnAccept ==
    [][ /\ \A c \in CallSids, p \in Phones, in \in ReservationTurns :
              ( resp'.valid \in {"inappropriate_name", "too_frequent"} /\ Speech(c, p, in) )
              => UNCHANGED << reservation_state, reservation_log >>
        /\ reservation_state' # reservation_state
              => /\ Len(reservation_log') = Len(reservation_log) + 1
                 /\ LET e == reservation_log'[Len(reservation_log')]
                    IN  reservation_state' = Put(reservation_state, e.phone, e.time)
        /\ reservation_log' # reservation_log
              => LET e == reservation_log'[Len(reservation_log')]
                 IN  /\ e.time = now
                     /\ reservation_state'[e.phone] = now ]_vars

\* a probe inside the cooldown was refused and the mark is still the time of
\* the accepted reservation
C8_Witness ==
    /\ resp.valid = "too_frequent"
    /\ now = RESERVATION_COOLDOWN - 1
    /\ \E p \in Phones : p \in DOMAIN reservation_state /\ reservation_state[p] = 0
    /\ Len(reservation_log) = 1

(***************************************************************************)
(* Properties of the conversation memory                                   *)
(***************************************************************************)
\* the contents of the user messages stored for the call, oldest first
UserTurns(c) ==
    LET users == SelectSeq(Get(call_history, c, << >>), LAMBDA msg : msg.role = "user")
    IN  [i \in 1..Len(users) |-> users[i].content]

LastThreeIdentical(c) ==
    LET u == UserTurns(c)
    IN  /\ Len(u) >= SPAM_REPEATS
        /\ u[Len(u)] = u[Len(u) - 1]
        /\ u[Len(u)] = u[Len(u) - 2]

\* C4: when the last 3 user turns of a caller's call are textually identical,
\* moderate_content flags the next utterance as spam (non-safe result, the
\* flag counter one higher), keyword or not.
C4_RepeatedIsSpam ==
    [][ \A cp \in MemoryCalls, in \in MemoryTurns :
          ( LastThreeIdentical(cp[1]) /\ Speech(cp[1], cp[2], in) )
          => /\ resp'.mod \notin {"safe", "none"}
             /\ moderation_flags'[cp[2]] = moderation_flags[cp[2]] + 1 ]_vars

\* C9: the history stored for a call holds at most 10 messages, after any
\* sequence of turns, in either conversation memory.
C9_StoredAtMostTen ==
    /\ \A c \in DOMAIN call_history : Len(call_history[c]) <= HISTORY_LIMIT
    /\ \A c \in DOMAIN conversation_history : Len(conversation_history[c]) <= HISTORY_LIMIT

\* sent is the end of full, of length min(10, Len(full)), in the same order
IsLastTen(sent, full) ==
    /\ Len(sent) = IF Len(full) < HISTORY_LIMIT THEN Len(full) ELSE HISTORY_LIMIT
    /\ \A i \in 1..Len(sent) : sent[i] = full[Len(full) - Len(sent) + i]

\* C10: in every turn that calls the completion service, the history passed
\* to it is the end of the stored history followed by the new user message:
\* at most 10 messages, the most recent ones, in conversation order.
C10_SentIsLastTen ==
    [][ /\ \A cp \in MemoryCalls, in \in MemoryTurns :
              ( /\ resp'.handler = "process_speech"
                /\ \E i \in 1..Len(resp'.trace) : resp'.trace[i] = "chat_completion"
                /\ Speech(cp[1], cp[2], in) )
              => IsLastTen(resp'.sent,
                           Append(Get(call_history, cp[1], << >>), Msg("user", in.text)))
        /\ \A c \in GptCalls, chat_out \in {Text(T_Ok), Err} :
              ( /\ resp'.handler = "process_message"
                /\ GptProcessMessage(c, T_Hola, chat_out, I_Question) )
              => IsLastTen(resp'.sent,
                           Append(Get(conversation_history, c, << >>),
                                  Msg("user", T_Hola))) ]_vars

\* a turn on a call whose stored history was longer than what was sent
C10_Witness ==
    /\ resp.handler = "process_speech"
    /\ Len(resp.sent) = HISTORY_LIMIT
    /\ resp.sent[HISTORY_LIMIT] = Msg("user", T_Hola)
    /\ \E c \in DOMAIN call_history : Len(call_history[c]) > HISTORY_LIMIT

(***************************************************************************)
(* Properties of the language router                                       *)
(***************************************************************************)
\* C11: the language code stored for a call is the one detected for the
\* first utterance of the call that reaches the reply generation (Spanish
\* for an utterance with a Spanish marker, French for one with a French
\* marker), and once stored it is never changed or removed by a later
\* utterance in any language.
C11_LanguageSticky ==
    [][ /\ \A c \in CallSids :
              c \in DOMAIN call_languages
              => /\ c \in DOMAIN call_languages'
                 /\ call_languages'[c] = call_languages[c]
        /\ \A cp \in LanguageCalls, in \in LanguageTurns :
              ( /\ cp[1] \notin DOMAIN call_languages
                /\ in.text \in {T_Hola, T_Bonjour}
                /\ SpeechL(cp[1], cp[2], in) )
              => \/ resp'.mod # "safe"
                 \/ call_languages'[cp[1]] = IF in.text = T_Hola THEN L_es ELSE L_fr ]_vars

\* a call whose first utterance was Spanish and whose second was French is
\* still stored as Spanish
C11_Witness ==
    \E c \in CallSids :
        /\ c \in DOMAIN call_languages /\ call_languages[c] = L_es
        /\ StoredLen(c) = 4
        /\ call_history[c][1].content = T_Hola
        /\ call_history[c][3].content = T_Bonjour

\* C12: in every turn of a call whose language is already stored, the
\* persona prompt sent to the completion service is the one of the stored
\* language of the call.
C12_PromptInStoredLanguage ==
    [][ \A cp \in LanguageCalls, in \in LanguageTurns :
          ( /\ resp'.prompt_lang # << >>
            /\ cp[1] \in DOMAIN call_languages
            /\ SpeechL(cp[1], cp[2], in) )
          => resp'.prompt_lang = call_languages[cp[1]] ]_vars

(***************************************************************************)
(* Properties of the extraction and of the end of the turn                 *)
(***************************************************************************)
\* C13: whatever the extractor's completion call answers that is not the
\* object asked for (an error, text that is not JSON, JSON without the
\* completion flag or without the consent field), and when the credential is
\* missing, analyze_interaction returns the incomplete draft
\* (reservation_complete false, consent "unknown", no details) without
\* raising, and the turn continues the conversation with the reply.
C13_ExtractionFallback ==
    [][ \A cp \in ExtractCalls, in \in ExtractTurns :
          ( /\ resp'.mod = "safe"
            /\ IsNumeric(in.conf)
            /\ in.ana_out \in FaultyExtractions \/ ~OPENAI_API_KEY
            /\ Speech(cp[1], cp[2], in) )
          => /\ last_analysis'[cp[1]] = DefaultAnalysis
             /\ resp'.status = 200
             /\ resp'.directive = "CONTINUE"
             /\ resp'.say = "reply" ]_vars

\* the five fields of a draft are all present and not null
FieldsComplete(data) ==
    /\ ~IsNone(data)
    /\ \A f \in {"name", "phone", "party_size", "date", "time"} :
          f \in DOMAIN data /\ ~IsNone(data[f])

\* C14: every reservation handed to log_reservation has name, phone, party
\* size, date and time all present and not null.
C14_PersistedIsComplete ==
    \A i \in 1..Len(reservation_log) : FieldsComplete(reservation_log[i].data)

\* C15: when the extractor reports a complete reservation and the
\* validation refuses it (a disallowed name, or the caller's cooldown is
\* running), the turn ends with CONTINUE and the message of that refusal,
\* log_reservation is not called and the caller's cooldown mark is unchanged.
C15_InvalidContinues ==
    [][ \A c \in CallSids, p \in Phones, in \in ReservationTurns :
          ( /\ OPENAI_API_KEY
            /\ resp'.mod = "safe"
            /\ \/ in.ana_out = A_Hitler
               \/ /\ in.ana_out = A_Complete
                  /\ p \in DOMAIN reservation_state
                  /\ now - reservation_state[p] < RESERVATION_COOLDOWN
            /\ Speech(c, p, in) )
          => /\ resp'.directive = "CONTINUE"
             /\ resp'.status = 200
             /\ resp'.say = IF in.ana_out = A_Hitler THEN "inappropriate_name"
                            ELSE "too_frequent"
             /\ \A i \in 1..Len(resp'.trace) : resp'.trace[i] # "log_reservation"
             /\ reservation_log' = reservation_log
             /\ reservation_state' = reservation_state ]_vars

\* a reservation with a disallowed name was refused after one was accepted
C15_Witness ==
    /\ resp.valid = "inappropriate_name"
    /\ resp.say = "inappropriate_name"
    /\ resp.directive = "CONTINUE"
    /\ Len(reservation_log) = 1

C17_NoExceptionEscapes ==
    resp.handler = "process_speech" => resp.status = 200 /\ resp.say # "none"

(***************************************************************************)
(* Properties of the failure handling                                      *)
(***************************************************************************)
\* C18: whenever the conversational completion call fails (an error of the
\* service or a missing credential), the sentence spoken is the fixed
\* apology of the generator, the same for every error; in app_simple.py no
\* reservation is persisted in that turn and the turn ends with CONTINUE or
\* TERMINATE; GPTService answers its fixed fallback and escalates.
C18_FailureIsStaticApology ==
    [][ /\ \A cp \in FailureCalls, in \in FailureTurns :
              ( /\ resp'.handler = "process_speech"
                /\ in.chat_out.kind = "error" \/ ~OPENAI_API_KEY
                /\ Speech(cp[1], cp[2], in) )
              => /\ resp'.speech = T_Apology
                 /\ reservation_log' = reservation_log
                 /\ resp'.directive \in {"CONTINUE", "TERMINATE"}
        /\ \A cp \in FailureCalls, chat_out \in ChatFailures :
              ( /\ resp'.handler = "app_generate_ai_response"
                /\ AppGenerateAiResponse(cp[1], T_Hola, chat_out) )
              => resp'.speech = T_Apology
        /\ \A cp \in FailureCalls, chat_out \in ChatFailures :
              ( /\ resp'.handler = "process_message"
                /\ GptProcessMessage(cp[1], T_Hola, chat_out, I_Question) )
              => /\ resp'.speech = T_GptFallback
                 /\ resp'.directive = "ESCALATE" ]_vars

(***************************************************************************)
(* Properties of the empty and low-confidence turns                        *)
(***************************************************************************)
\* an utterance with empty text or with a confidence below 0.5
NoInput(in) ==
    \/ in.text = << >>
    \/ IsNumeric(in.conf) /\ FloatOf(in.conf) < CONFIDENCE_THRESHOLD

\* C19: a turn whose utterance is empty or has a confidence below 0.5 gets,
\* whatever its text and the caller's record, CONTINUE with the re-prompt;
\* no completion call is made and the caller's flag counter and blocked
\* status are unchanged.
C19_NoInputReprompts ==
    [][ \A c \in NoInputCalls, p \in Phones, in \in NoInputTurns :
          ( NoInput(in) /\ Speech(c, p, in) )
          => /\ resp'.directive = "CONTINUE"
             /\ resp'.say = "reprompt"
             /\ \A i \in 1..Len(resp'.trace) :
                    resp'.trace[i] \notin {"chat_completion", "extract_completion",
                                          "detect_completion"}
             /\ moderation_flags' = moderation_flags
             /\ blocked_numbers' = blocked_numbers ]_vars

\* C20: after a turn that was answered with the re-prompt, a further empty
\* or low-confidence utterance on the call is answered with a hang-up after
\* the "didn't hear you" message, not with the re-prompt again.
C20_SecondNoInputTerminates ==
    ( resp.handler = "process_speech" /\ resp.say = "reprompt" )
    => \A c \in NoInputCalls, p \in Phones, in \in NoInputTurns :
          ( NoInput(in) /\ MatchingCategories(LowerText(in.text)) = {} )
          => ~ ENABLED ( /\ Speech(c, p, in)
                         /\ resp'.directive = "CONTINUE"
                         /\ resp'.say = "reprompt" )

(***************************************************************************)
(* Properties of the turn pipeline                                         *)
(***************************************************************************)
\* the completion-service calls in the trace of a response
CompletionCalls(trace) ==
    SelectSeq(trace, LAMBDA x : x \in {"detect_completion", "chat_completion",
                                        "extract_completion", "intent_completion"})

\* C22: a clean and confident turn of a caller that is in the blocked set
\* ends with the blocked message and a hang-up, and makes no
\* completion-service call.
C22_BlockedTurnShortCircuits ==
    [][ \A c \in GuardCalls, p \in Phones, in \in GuardTurns :
          ( /\ p \in blocked_numbers
            /\ OPENAI_API_KEY
            /\ in.text = T_Hola
            /\ in.conf = "0.9"
            /\ Speech(c, p, in) )
          => /\ resp'.say = "account_blocked"
             /\ resp'.directive = "TERMINATE"
             /\ CompletionCalls(resp'.trace) = << >> ]_vars

\* C27 as stated: the counter is the number of flagged utterances since the
\* last unblock (so it is zero after every unblock), every flagged utterance
\* of either call adds one, and at most 5 call-starts are admitted in a window.
C27_Original ==
    [][ \A p \in SharedPhones :
          /\ (AdmittedInWindow(p))' <= MAX_CALLS_PER_HOUR
          /\ UnblockNumber(p) => moderation_flags'[p] = 0
          /\ \A c \in CallSids, in \in SharedTurns :
                Speech(c, p, in)
                => moderation_flags'[p] = IF in.text = T_Damn THEN moderation_flags[p] + 1
                                          ELSE moderation_flags[p]
          /\ \A c \in CallSids :
                HandleCall(c, p) => moderation_flags' = moderation_flags ]_vars

\* C27 as amended: no update of the caller's record is lost when two calls
\* share the caller: every flagged utterance of either call adds exactly one
\* to the counter, a clean one and a call-start leave it, an unblock resets
\* it only when the caller was blocked, and the call-starts admitted within
\* one window never exceed 5.
C27_NoLostUpdate ==
    [][ \A p \in SharedPhones :
          /\ (AdmittedInWindow(p))' <= MAX_CALLS_PER_HOUR
          /\ UnblockNumber(p)
                => moderation_flags'[p] = IF p \in blocked_numbers THEN 0
                                          ELSE moderation_flags[p]
          /\ \A c \in CallSids, in \in SharedTurns :
                Speech(c, p, in)
                => moderation_flags'[p] = IF in.text = T_Damn THEN moderation_flags[p] + 1
                                          ELSE moderation_flags[p]
          /\ \A c \in CallSids :
                HandleCall(c, p) => moderation_flags' = moderation_flags ]_vars

\* both calls of the caller were started, the window is full and two
\* utterances were flagged
C27_Witness ==
    \E p \in SharedPhones :
        /\ CallSids \subseteq DOMAIN call_history
        /\ Len(call_rate_limit[p]) = MAX_CALLS_PER_HOUR
        /\ resp.say = "rate_limited"
        /\ moderation_flags[p] = 2

\* C28: a call-start or a turn of one call leaves the history, the stored
\* language and the last extraction result of every other call unchanged.
C28_CallsIsolated ==
    [][ \A cp \in LanguageCalls :
          ( \/ HandleCall(cp[1], cp[2])
            \/ \E in \in LanguageTurns : SpeechL(cp[1], cp[2], in) )
          => \A b \in CallSids \ {cp[1]} :
                /\ (b \in DOMAIN call_history') = (b \in DOMAIN call_history)
                /\ b \in DOMAIN call_history => call_history'[b] = call_history[b]
                /\ (b \in DOMAIN call_languages') = (b \in DOMAIN call_languages)
                /\ b \in DOMAIN call_languages => call_languages'[b] = call_languages[b]
                /\ (b \in DOMAIN last_analysis') = (b \in DOMAIN last_analysis)
                /\ b \in DOMAIN last_analysis => last_analysis'[b] = last_analysis[b] ]_vars

\* two calls with turns in different languages, each with its own history
C28_Witness ==
    /\ CallSids \subseteq DOMAIN call_languages
    /\ call_languages["CA1"] = L_es
    /\ call_languages["unknown"] = L_fr
    /\ StoredLen("CA1") = 4
    /\ StoredLen("unknown") = 2
    /\ CallSids \subseteq DOMAIN last_analysis

\* C29: a turn makes at most two completion-service calls, one for the
\* reply and one for the extraction.
C29_AtMostTwoCompletions ==
    resp.handler = "process_speech"
    => Len(CompletionCalls(resp.trace)) <= 2

\* C21: a turn whose utterance holds a configured keyword makes no
\* completion-service call.
C21_FlaggedMakesNoCompletion ==
    [][ \A c \in CallSids, in \in VoiceTurns :
          ( /\ ExpectedCategory(in.text) # "none"
            /\ VoiceProcessSpeech(c, in) )
          => CompletionCalls(resp'.trace) = << >> ]_vars

\* C23: a turn whose analysis has intent "escalation" or should_escalate true
\* gets the directive ESCALATE: the call record is marked escalated and the
\* response dials the fallback number or apologises.
C23_EscalationSignalEscalates ==
    [][ \A c \in CallSids, in \in VoiceTurns :
          ( /\ c \in DOMAIN call_records
            /\ in.db_out = "ok"
            /\ in.chat_out.kind = "text"
            /\ in.intent_out \in {I_Escalation, I_Human}
            /\ IsNumeric(in.conf)
            /\ VoiceProcessSpeech(c, in) )
          => /\ resp'.directive = "ESCALATE"
             /\ resp'.say \in {"dial_human", "apology_callback"}
             /\ call_records'[c].escalated ]_vars

\* C24: after a status callback with "completed" or "failed" the
\* conversation memory holds no entry of the call.
C24_ClearedAtCallEnd ==
    [][ \A c \in CallSids, st \in EndStatuses, d \in CallDurations, db_out \in DbAnswers :
          ( /\ c \in DOMAIN conversation_history
            /\ VoiceCallStatus(c, st, d, db_out) )
          => c \notin DOMAIN conversation_history' ]_vars

\* C25: a turn that arrives after the end of the call was recorded makes no
\* completion-service call and creates no conversation memory of the call.
C25_NoTurnAfterTeardown ==
    [][ \A c \in CallSids, in \in VoiceTurns :
          ( /\ c \in DOMAIN call_records
            /\ call_records[c].status \in EndStatuses
            /\ c \notin DOMAIN conversation_history
            /\ VoiceProcessSpeech(c, in) )
          => /\ CompletionCalls(resp'.trace) = << >>
             /\ c \notin DOMAIN conversation_history' ]_vars

\* C26: a clear leaves no entry of the call, changes no other entry and
\* returns, whether or not an entry exists; a turn whose entry was cleared
\* between its two appends returns a result and leaves no entry of the call.
C26_ClearIdempotentAndRaceSafe ==
    [][ \A c \in CallSids :
          /\ ClearConversationHistory(c)
               => /\ c \notin DOMAIN conversation_history'
                  /\ DOMAIN conversation_history' = (DOMAIN conversation_history) \ {c}
                  /\ \A b \in DOMAIN conversation_history' :
                        conversation_history'[b] = conversation_history[b]
                  /\ resp'.status = 200
          /\ \A intent_out \in RaceIntents :
               ( /\ c \notin DOMAIN conversation_history
                 /\ GptFinish(c, intent_out) )
               => /\ c \notin DOMAIN conversation_history'
                  /\ c \notin DOMAIN in_flight'
                  /\ resp'.status = 200
                  /\ resp'.directive \in {"ESCALATE", "CONTINUE"} ]_vars

\* a turn whose completion call answered with a reply after the entry of the
\* call had been cleared: it returned the fallback and the call has no entry
C26_Witness ==
    /\ resp.handler = "process_message"
    /\ resp.trace = << "chat_completion", "KeyError" >>
    /\ resp.speech = T_GptFallback
    /\ "CA1" \notin DOMAIN conversation_history
    /\ "CA1" \notin DOMAIN in_flight
    /\ "unknown" \in DOMAIN conversation_history

\* C30: every turn that has issued its completion call eventually returns.
C30_TurnEventuallyReturns ==
    \A c \in CallSids : (c \in DOMAIN in_flight) ~> (c \notin DOMAIN in_flight)

(***************************************************************************)
(* Properties of the caller's record                                       *)
(***************************************************************************)
\* C34: a call-start of a caller in the blocked set is rejected and leaves
\* the caller's window of call times exactly as it was, aged entries
\* included.
C34_BlockedLeavesWindow ==
    [][ \A c \in GuardCalls, p \in Phones :
          ( p \in blocked_numbers /\ HandleCall(c, p) )
          => /\ call_rate_limit' = call_rate_limit
             /\ resp'.say = "rate_limited"
             /\ resp'.directive = "TERMINATE" ]_vars

\* a blocked caller was rejected and the window still holds the call time
\* that is older than the window
C34_Witness ==
    \E p \in Phones :
        /\ p \in blocked_numbers
        /\ resp.handler = "handle_call"
        /\ resp.directive = "TERMINATE"
        /\ call_rate_limit[p] # << >>
        /\ AdmittedInWindow(p) = 0

\* the entries of the window younger than the window length
YoungEntries(window) == SelectSeq(window, LAMBDA call_time : now - call_time < RATE_WINDOW)

\* C35 as stated: after every is_rate_limited call the caller's window holds
\* at most 5 call times, all younger than 3600 s at that check, and a
\* rejected call-start is not appended.
C35_Original ==
    [][ \A c \in RateCalls, p \in RatePhones :
          HandleCall(c, p)
          => /\ Len(call_rate_limit'[p]) <= MAX_CALLS_PER_HOUR
             /\ call_rate_limit'[p] = YoungEntries(call_rate_limit'[p])
             /\ resp'.say = "rate_limited"
                   => call_rate_limit'[p] = YoungEntries(call_rate_limit[p]) ]_vars

\* C35 as amended: after every is_rate_limited call the caller's window
\* holds at most 5 call times; after a check of a caller that is not blocked
\* they are all younger than 3600 s at that check, and a call-start rejected
\* as rate-limited is not appended; the check of a blocked caller leaves the
\* window as it was.
C35_WindowBounded ==
    [][ \A c \in RateCalls, p \in RatePhones :
          HandleCall(c, p)
          => /\ Len(call_rate_limit'[p]) <= MAX_CALLS_PER_HOUR
             /\ p \in blocked_numbers => call_rate_limit'[p] = call_rate_limit[p]
             /\ p \notin blocked_numbers
                   => /\ call_rate_limit'[p] = YoungEntries(call_rate_limit'[p])
                      /\ resp'.say = "rate_limited"
                            => call_rate_limit'[p] = YoungEntries(call_rate_limit[p]) ]_vars

\* the sixth call-start inside the window of a caller that is not blocked
\* was rejected and the window holds the five admitted ones
C35_Witness ==
    \E p \in RatePhones :
        /\ p \notin blocked_numbers
        /\ resp.say = "rate_limited"
        /\ now = RATE_WINDOW - 1
        /\ Len(call_rate_limit[p]) = MAX_CALLS_PER_HOUR
        /\ call_rate_limit[p][1] = 0

\* C36: a caller is in the blocked set exactly when the caller's flag
\* counter is at least 3.
C36_BlockedIffThreeFlags ==
    \A p \in Phones :
        /\ p \in blocked_numbers => moderation_flags[p] >= MAX_MODERATION_FLAGS
        /\ moderation_flags[p] >= MAX_MODERATION_FLAGS => p \in blocked_numbers

(***************************************************************************)
(* Properties of storage failures, drafts and histories                    *)
(***************************************************************************)
\* C31: a turn whose storage commit fails gets the directive and the prompt
\* of the same turn with working storage: the reply and a new gather.
C31_StorageFailureNotPropagated ==
    [][ \A c \in CallSids, in \in VoiceTurns :
          ( /\ c \in DOMAIN call_records
            /\ in.db_out # "ok"
            /\ in.chat_out.kind = "text"
            /\ in.intent_out = I_Question
            /\ VoiceProcessSpeech(c, in) )
          => /\ resp'.directive = "CONTINUE"
             /\ resp'.say = "reply"
             /\ resp'.speech = in.chat_out.text ]_vars

\* C33: any two reservations of one caller handed to persistence are at
\* least 300 seconds apart, in one call or across calls.
C33_AcceptedApart ==
    \A i \in 1..Len(reservation_log), j \in 1..Len(reservation_log) :
        ( i < j /\ reservation_log[i].phone = reservation_log[j].phone )
        => reservation_log[j].time - reservation_log[i].time >= RESERVATION_COOLDOWN

\* two reservations of one caller accepted in the same call, the second one
\* exactly at the end of the cooldown of the first
C33_Witness ==
    /\ Len(reservation_log) = 2
    /\ reservation_log[1].phone = reservation_log[2].phone
    /\ reservation_log[1].call_sid = reservation_log[2].call_sid
    /\ reservation_log[1].time = RESERVATION_COOLDOWN - 1
    /\ reservation_log[2].time = 2 * RESERVATION_COOLDOWN - 1

\* C37: a turn that is refused before the reply (flagged by moderation,
\* empty or below the confidence threshold) leaves the history and the
\* stored language of every call unchanged and hands nothing to the
\* completion service.
C37_RejectedLeavesHistory ==
    [][ \A c \in RejectedCalls, p \in Phones, in \in RejectedTurns :
          ( /\ ExpectedCategory(in.text) # "none" \/ NoInput(in)
            /\ Speech(c, p, in) )
          => /\ call_history' = call_history
             /\ call_languages' = call_languages
             /\ resp'.sent = << >> ]_vars

\* a flagged utterance was refused on a call that has an answered turn in its
\* history and a stored language
C37_Witness ==
    /\ resp.handler = "process_speech"
    /\ resp.mod = "profanity"
    /\ StoredLen("CA1") = 2
    /\ "CA1" \in DOMAIN call_languages
    /\ call_languages["CA1"] = L_es

\* user and assistant messages alternate, starting and ending with a pair
Alternates(h) ==
    /\ Len(h) % 2 = 0
    /\ \A i \in 1..Len(h) : h[i].role = IF i % 2 = 1 THEN "user" ELSE "assistant"

\* C38: the stored history of every call alternates user and assistant
\* messages, in either conversation memory.
C38_HistoryAlternates ==
    /\ \A c \in DOMAIN call_history : Alternates(call_history[c])
    /\ \A c \in DOMAIN conversation_history : Alternates(conversation_history[c])

\* C39: when the reply was generated and only the intent analysis failed
\* (service error, or JSON without all four keys), the turn returns the
\* reply and does not escalate.
C39_IntentFailureNoEscalation ==
    [][ \A c \in CallSids, in \in VoiceTurns :
          ( /\ c \in DOMAIN call_records
            /\ in.db_out = "ok"
            /\ IsNumeric(in.conf)
            /\ in.chat_out.kind = "text"
            /\ in.intent_out \in {Err, I_MissingKeys}
            /\ VoiceProcessSpeech(c, in) )
          => /\ resp'.directive = "CONTINUE"
             /\ resp'.speech = in.chat_out.text
             /\ ~call_records'[c].escalated ]_vars

\* C32: the reservation draft of a turn is derived from that turn's exchange
\* only: whenever the extractor of process_speech runs on a turn that the
\* completion service answered, its draft is the one it yields for the latest
\* user utterance and the latest reply alone, whatever the earlier turns of
\* the call contained.
C32_DraftFromLatestExchange ==
    [][ \A c \in AppCalls, in \in AppTurns :
          (resp'.draft.ran /\ in[3].kind = "text"
             /\ AppProcessSpeech(c, in[1], in[2], in[3], in[4]))
          => resp'.draft.details =
                extract_reservation_details(<< Msg("user", in[1]),
                                               Msg("assistant", resp'.speech) >>) ]_vars

====
